---------------------------- MODULE Spec2Model ----------------------------
(***************************************************************************)
(* A model of the learning and reward-shaping core of PokeRushAI:          *)
(*   CheckpointManager  (src/bot/checkpoint_manager.py)                    *)
(*   RewardCalculator   (src/bot/rewards.py, src/emulator/pokemon_memory.py)*)
(*   QLearningAgent     (src/bot/q_learning.py)                            *)
(*   ScreenExplorer     (src/bot/screen_explorer.py)                       *)
(*   ExplorationMap     (src/bot/exploration_map.py)                       *)
(*   select_action      (src/bot/policy.py, HeuristicGuide in rewards.py)  *)
(*   PokeRushBot        (src/bot/rl_bot.py)                                *)
(* Each component has its own specification (SpecCkpt, SpecReward, SpecQ,  *)
(* SpecScreen, SpecMap); the variables of the other components stay at     *)
(* their initial values.                                                   *)
(***************************************************************************)
EXTENDS Integers, Sequences, FiniteSets, TLC

VARIABLES
    \* ---- CheckpointManager ----
    enabled,               \* self.enabled
    keep_best,             \* self.keep_best
    save_interval,         \* self.save_interval
    last_checkpoint_step,  \* self.last_checkpoint_step
    best_scores,           \* self.best_scores: sequence of [score, path]
    storage,               \* checkpoint_dir: path -> [files, metadata]
    now,                   \* the wall clock in seconds (time.strftime)
    ck_call,               \* the last CheckpointManager call: [op, path]
    ck_saves,              \* the number of save calls made so far
    \* ---- ExplorationMap ----
    explore_map,           \* self.explore_map: the set of cells holding 255
    em_hist,               \* the update calls made on the map itself since its last reset: [x, y, map_id, ret]
    \* ---- ScreenExplorer ----
    use_knn,               \* self.use_knn
    knn_index,             \* self.knn_index: the stored vectors, by label
    seen_frame_hashes,     \* self.seen_frame_hashes
    frame_count,           \* self.frame_count
    sc_hist,               \* the add_frame calls since the last reset: [frame, ret]
    \* ---- QLearningAgent ----
    q_table_path,          \* self.q_table_path is set (TRUE) or None (FALSE)
    q_table,               \* self.q_table: state key -> action -> value
    total_updates,         \* self.total_updates
    states_explored,       \* self.states_explored
    q_file,                \* the document at q_table_path, or NoFile
    q_at_save,             \* self.q_table as it was at the last save_q_table
    q_call,                \* the last QLearningAgent call, its arguments and result
    \* ---- RewardCalculator (its exploration_map and screen_explorer are the
    \*      ExplorationMap and ScreenExplorer variables above) ----
    memory_reader,         \* self.memory_reader is set (TRUE) or None (FALSE)
    grace_period,          \* self.grace_period
    step_count,            \* self.step_count
    visited_locations,     \* self.visited_locations
    seen_coords,           \* self.seen_coords: coordinate -> visit count
    base_screen_explore,   \* self.base_screen_explore
    position_history,      \* self.position_history
    base_event_flags,      \* self.base_event_flags
    max_event_flags,       \* self.max_event_flags
    max_level_sum,         \* self.max_level_sum
    max_opponent_level,    \* self.max_opponent_level
    max_explored_tiles,    \* self.max_explored_tiles
    last_health,           \* self.last_health
    party_size,            \* self.party_size
    died_count,            \* self.died_count
    total_healing_reward,  \* self.total_healing_reward
    mem,                   \* the emulator memory the last call read
    rewards,               \* the dictionary the last call returned, if it was calculate_reward
    rw_call,               \* the last RewardCalculator call: [op, curr_state]
    rw_calls,              \* the number of calculate_reward calls made so far
    rw_nonzero,            \* the trackers whose metric was non-zero in a call since the last reset
    rw_first,              \* the trackers whose metric was non-zero for the first time since the last reset in the last call
    rw_premax,             \* whether reset was called, and the trackers whose maximum was non-zero when it last was
    rw_audit,              \* what the audited calls since the last reset observed and were paid
    \* ---- PokeRushBot ----
    bot,                   \* the locals of the running training loop and where it stands
    bot_trace              \* the calls the loop has made on emulator, reward calculator, agent and checkpoint store

ckVars == <<enabled, keep_best, save_interval, last_checkpoint_step, best_scores, storage,
            now, ck_call, ck_saves>>
emVars == <<explore_map, em_hist>>
scVars == <<use_knn, knn_index, seen_frame_hashes, frame_count, sc_hist>>

qVars  == <<q_table_path, q_table, total_updates, states_explored, q_file,
            q_at_save, q_call>>

rwVars == <<memory_reader, grace_period, step_count, visited_locations,
            seen_coords, base_screen_explore, position_history,
            base_event_flags, max_event_flags, max_level_sum,
            max_opponent_level, max_explored_tiles, last_health, party_size,
            died_count, total_healing_reward, mem, rewards, rw_call, rw_calls,
            rw_nonzero, rw_first, rw_premax>>

botVars == <<bot, bot_trace>>

vars == <<ckVars, emVars, scVars, qVars, rwVars, rw_audit, botVars>>

\* What a call on one component leaves alone: the other components.
ckOthers == <<emVars, scVars, qVars, rwVars, rw_audit, botVars>>
emOthers == <<ckVars, scVars, qVars, rwVars, rw_audit, botVars>>
scOthers == <<ckVars, emVars, qVars, rwVars, rw_audit, botVars>>
qOthers  == <<ckVars, emVars, scVars, rwVars, rw_audit, botVars>>
rwOthers == <<ckVars, qVars, rw_audit, botVars>>
rwRest   == <<ckVars, qVars, botVars>>
botOthers == <<ckVars, emVars, scVars, qVars, rwVars, rw_audit>>

Max(a, b) == IF a >= b THEN a ELSE b
Min(a, b) == IF a <= b THEN a ELSE b
Abs(a) == IF a >= 0 THEN a ELSE -a

(***************************************************************************)
(* Floating-point values are modelled as exact rationals [n, d] in lowest  *)
(* terms with d > 0.                                                       *)
(***************************************************************************)
RECURSIVE GCD(_, _)
GCD(a, b) == IF b = 0 THEN a ELSE GCD(b, a % b)

Rat(n, d) ==
    LET g == GCD(Abs(n), d)
    IN  [n |-> n \div g, d |-> d \div g]

Zero == Rat(0, 1)
RatOfInt(i) == Rat(i, 1)
RatAdd(a, b) == Rat(a.n * b.d + b.n * a.d, a.d * b.d)
RatNeg(a) == [n |-> -a.n, d |-> a.d]
RatSub(a, b) == RatAdd(a, RatNeg(b))
RatMul(a, b) == Rat(a.n * b.n, a.d * b.d)
RatLE(a, b) == a.n * b.d <= b.n * a.d
RatLT(a, b) == a.n * b.d < b.n * a.d
\* max() over a non-empty set of values
RatMaxOf(S) == CHOOSE m \in S : \A v \in S : RatLE(v, m)

(***************************************************************************)
(*                          CheckpointManager                              *)
(***************************************************************************)

\* Bound of the checkpoint model: the number of save calls of a run.
MaxSaves == 3

CkKeepBest == {1, 2}             \* keep_best arguments of the constructor
CkIntervals == {1, 2}            \* save_interval arguments of the constructor
CkQuerySteps == 0..4             \* current_step arguments of should_checkpoint
CkSteps    == {1, 2}             \* step arguments
CkTimes    == {0, 1}             \* the seconds the clock shows
CkScores   == {0, 1, 2}          \* score arguments
CkEpisodes == {1}                \* episode arguments
CkReasons  == {"highest_reward"} \* reason arguments
NoEpisode  == -1                 \* a best_ name carries no episode
NoReason   == ""                 \* a checkpoint_ name carries no reason
NoPath     == [kind |-> "none"]  \* no checkpoint written yet

\* checkpoint_name = f"checkpoint_step{step}_ep{episode}_{timestamp}"
CheckpointPath(step, episode, timestamp) ==
    [kind |-> "checkpoint", reason |-> NoReason, step |-> step,
     episode |-> episode, ts |-> timestamp]

\* checkpoint_name = f"best_{reason}_step{step}_{timestamp}"
BestPath(reason, step, timestamp) ==
    [kind |-> "best", reason |-> reason, step |-> step,
     episode |-> NoEpisode, ts |-> timestamp]

\* old_path.name.startswith('best_')
StartsWithBest(path) == path.kind = "best"

\* old_path.exists()
Exists(st, path) == path \in DOMAIN st

\* The files a save leaves in the checkpoint directory: mkdir(exist_ok=True)
\* keeps what an earlier save to the same name wrote.
WriteDir(st, path, q_exists, stats, metadata) ==
    LET old == IF Exists(st, path) THEN st[path].files ELSE {}
        new == (IF q_exists THEN {"q_table.pkl"} ELSE {})
               \cup (IF stats THEN {"stats.json"} ELSE {})
               \cup {"metadata.json"}
    IN  (path :> [files |-> old \cup new, metadata |-> metadata]) @@ st

\* list.sort(key=lambda x: x[0], reverse=True): a stable sort by descending
\* score, as an insertion sort that puts each element behind its equals.
InsertDesc(sorted, e) ==
    LET k == Cardinality({i \in 1..Len(sorted) : sorted[i].score >= e.score})
    IN  SubSeq(sorted, 1, k) \o <<e>> \o SubSeq(sorted, k + 1, Len(sorted))

RECURSIVE SortDesc(_)
SortDesc(s) ==
    IF s = <<>> THEN <<>>
    ELSE InsertDesc(SortDesc(SubSeq(s, 1, Len(s) - 1)), s[Len(s)])

\* The checkpoints the cleanup loop of _update_best_checkpoints removes.
Victims(st, tail) ==
    {tail[i].path : i \in {j \in 1..Len(tail) :
        Exists(st, tail[j].path) /\ ~StartsWithBest(tail[j].path)}}

\* shutil.rmtree over the victims
RmTrees(st, victims) == [p \in (DOMAIN st) \ victims |-> st[p]]

\* CheckpointManager._update_best_checkpoints: the new list and storage.
UpdateBestCheckpoints(bs, st, score, path) ==
    LET sorted == SortDesc(Append(bs, [score |-> score, path |-> path]))
    IN  IF Len(sorted) > keep_best
        THEN [best    |-> SubSeq(sorted, 1, keep_best),
              storage |-> RmTrees(st,
                  Victims(st, SubSeq(sorted, keep_best + 1, Len(sorted))))]
        ELSE [best |-> sorted, storage |-> st]

\* CheckpointManager.save_checkpoint
save_checkpoint(step, episode, q_exists, stats, score, is_best) ==
    /\ ck_call' = [op |-> "save_checkpoint",
                   path |-> CheckpointPath(step, episode, now)]
    /\ IF ~enabled
       THEN UNCHANGED <<last_checkpoint_step, best_scores, storage>>
       ELSE LET path == CheckpointPath(step, episode, now)
                metadata == [score |-> score, is_best |-> is_best,
                             reason |-> NoReason]
                written == WriteDir(storage, path, q_exists, stats, metadata)
                upd == UpdateBestCheckpoints(best_scores, written, score, path)
            IN  /\ last_checkpoint_step' = step
                /\ IF is_best \/ score > 0
                   THEN /\ best_scores' = upd.best
                        /\ storage' = upd.storage
                   ELSE /\ best_scores' = best_scores
                        /\ storage' = written
    /\ UNCHANGED <<enabled, keep_best, save_interval, now>>

\* CheckpointManager.save_best_checkpoint
save_best_checkpoint(step, episode, score, q_exists, stats, reason) ==
    /\ ck_call' = [op |-> "save_best_checkpoint",
                   path |-> BestPath(reason, step, now)]
    /\ IF ~enabled
       THEN UNCHANGED <<last_checkpoint_step, best_scores, storage>>
       ELSE LET path == BestPath(reason, step, now)
                metadata == [score |-> score, is_best |-> TRUE,
                             reason |-> reason]
                written == WriteDir(storage, path, q_exists, stats, metadata)
                upd == UpdateBestCheckpoints(best_scores, written, score, path)
            IN  /\ best_scores' = upd.best
                /\ storage' = upd.storage
                /\ UNCHANGED last_checkpoint_step
    /\ UNCHANGED <<enabled, keep_best, save_interval, now>>

\* A second of wall-clock time passes between two calls.
Tick ==
    /\ now + 1 \in CkTimes
    /\ now' = now + 1
    /\ UNCHANGED <<enabled, keep_best, save_interval, last_checkpoint_step,
                   best_scores, storage, ck_call, ck_saves>>
    /\ UNCHANGED ckOthers

\* CheckpointManager.__init__
CkInit ==
    /\ enabled \in BOOLEAN
    /\ keep_best \in CkKeepBest
    /\ save_interval \in CkIntervals
    /\ last_checkpoint_step = 0
    /\ best_scores = <<>>
    /\ storage = <<>>
    /\ now = 0
    /\ ck_call = [op |-> "init", path |-> NoPath]
    /\ ck_saves = 0

CkArtifacts == {TRUE}   \* q_table_path exists and stats is non-empty

SaveCheckpoint ==
    /\ ck_saves < MaxSaves
    /\ ck_saves' = ck_saves + 1
    /\ \E step \in CkSteps, episode \in CkEpisodes, score \in CkScores,
          is_best \in BOOLEAN, q_exists \in CkArtifacts, stats \in CkArtifacts :
           save_checkpoint(step, episode, q_exists, stats, score, is_best)
    /\ UNCHANGED ckOthers

SaveBestCheckpoint ==
    /\ ck_saves < MaxSaves
    /\ ck_saves' = ck_saves + 1
    /\ \E step \in CkSteps, episode \in CkEpisodes, score \in CkScores,
          reason \in CkReasons, q_exists \in CkArtifacts, stats \in CkArtifacts :
           save_best_checkpoint(step, episode, score, q_exists, stats, reason)
    /\ UNCHANGED ckOthers

\* shutil.rmtree raising over the victims: every victim keeps its directory
\* and any part of its files.
FailedRmTrees(st, victims) ==
    {[p \in DOMAIN st |-> IF p \in victims
                            THEN [st[p] EXCEPT !.files = kept[p]]
                            ELSE st[p]] :
        kept \in [victims -> SUBSET {"q_table.pkl", "stats.json", "metadata.json"}]
            \cap {k \in [victims -> SUBSET {"q_table.pkl", "stats.json", "metadata.json"}] :
                      \A p \in victims : k[p] \subseteq st[p].files}}

UpdateBestCheckpoints_rm_raises(bs, st, score, path) ==
    LET sorted == SortDesc(Append(bs, [score |-> score, path |-> path]))
        tail == SubSeq(sorted, keep_best + 1, Len(sorted))
    IN  IF Len(sorted) > keep_best /\ Victims(st, tail) # {}
        THEN {[best |-> sorted, storage |-> st2, raised |-> TRUE] :
                 st2 \in FailedRmTrees(st, Victims(st, tail))}
        ELSE {}

\* CheckpointManager._update_best_checkpoints when the removal of an evicted
\* checkpoint raises: the except clause reports the error, the loop and the
\* truncation of the list go on.  The set of outcomes; empty when the call
\* removes nothing.
UpdateBestCheckpointsRmFails(bs, st, score, path) ==
    LET sorted == SortDesc(Append(bs, [score |-> score, path |-> path]))
        tail == SubSeq(sorted, keep_best + 1, Len(sorted))
    IN  IF Len(sorted) > keep_best /\ Victims(st, tail) # {}
        THEN {[best |-> SubSeq(sorted, 1, keep_best), storage |-> st2,
               raised |-> FALSE] :
                 st2 \in FailedRmTrees(st, Victims(st, tail))}
        ELSE {}

\* save_checkpoint / save_best_checkpoint on an enabled store whose cleanup
\* hits a failing shutil.rmtree.
SaveRmFails(op, path, step, metadata, tracked) ==
    /\ enabled
    /\ tracked
    /\ \E upd \in UpdateBestCheckpointsRmFails(best_scores,
                   WriteDir(storage, path, TRUE, TRUE, metadata),
                   metadata.score, path) :
           /\ ck_call' = [op |-> IF upd.raised THEN "raised" ELSE op,
                          path |-> path, rm_failed |-> TRUE]
           /\ best_scores' = upd.best
           /\ storage' = upd.storage
    /\ last_checkpoint_step' = step
    /\ UNCHANGED <<enabled, keep_best, save_interval, now>>

SaveCheckpointRmFails ==
    /\ ck_saves < MaxSaves
    /\ ck_saves' = ck_saves + 1
    /\ \E step \in CkSteps, episode \in CkEpisodes, score \in CkScores,
          is_best \in BOOLEAN :
           SaveRmFails("save_checkpoint", CheckpointPath(step, episode, now),
                       step,
                       [score |-> score, is_best |-> is_best, reason |-> NoReason],
                       is_best \/ score > 0)
    /\ UNCHANGED ckOthers

SaveBestCheckpointRmFails ==
    /\ ck_saves < MaxSaves
    /\ ck_saves' = ck_saves + 1
    /\ \E step \in CkSteps, episode \in CkEpisodes, score \in CkScores,
          reason \in CkReasons :
           SaveRmFails("save_best_checkpoint", BestPath(reason, step, now),
                       last_checkpoint_step,
                       [score |-> score, is_best |-> TRUE, reason |-> reason],
                       TRUE)
    /\ UNCHANGED ckOthers

\* CheckpointManager.get_best_checkpoint
get_best_checkpoint == IF best_scores = <<>> THEN NoPath ELSE best_scores[1].path

\* CheckpointManager.should_checkpoint: the value it returns
should_checkpoint(current_step) ==
    IF ~enabled THEN FALSE
    ELSE (current_step - last_checkpoint_step) >= save_interval

\* A should_checkpoint call; ck_call keeps the path of the last save call.
ShouldCheckpoint ==
    /\ \E current_step \in CkQuerySteps :
           ck_call' = [op |-> "should_checkpoint", path |-> ck_call.path,
                       step |-> current_step,
                       ret |-> should_checkpoint(current_step)]
    /\ UNCHANGED <<enabled, keep_best, save_interval, last_checkpoint_step,
                   best_scores, storage, now, ck_saves>>
    /\ UNCHANGED ckOthers

\* The periodic save of the training loop.  The agent get_agent creates
\* writes its table to q_table.json; the loop hands save_checkpoint the
\* path of q_table.pkl in the data directory, and a stats dictionary that
\* is never empty.
AgentTableName == "q_table.json"
LoopTableName == "q_table.pkl"
DataFiles == {AgentTableName, "state.json"}

LoopSaveCheckpoint ==
    /\ ck_saves < MaxSaves
    /\ ck_saves' = ck_saves + 1
    /\ \E step \in CkSteps, episode \in CkEpisodes, score \in CkScores :
           save_checkpoint(step, episode, LoopTableName \in DataFiles, TRUE, score, FALSE)
    /\ UNCHANGED ckOthers

(***************************************************************************)
(*                            ExplorationMap                               *)
(***************************************************************************)

\* Bound of the exploration-map model: update calls between two resets.
MaxMapCalls == 3

GLOBAL_MAP_H == 384   \* GLOBAL_MAP_SHAPE[0]
GLOBAL_MAP_W == 384   \* GLOBAL_MAP_SHAPE[1]
coords_pad == 100     \* self.coords_pad

\* MAP_COORDINATES: map id -> (anchor_y, anchor_x)
MAP_COORDINATES ==
    0 :> <<61, 9>> @@ 1 :> <<100, 54>> @@ 2 :> <<135, 54>> @@
    3 :> <<162, 135>> @@ 4 :> <<197, 162>> @@ 5 :> <<215, 135>> @@
    6 :> <<197, 81>> @@ 7 :> <<252, 9>> @@ 8 :> <<270, 54>> @@
    9 :> <<9, 54>> @@ 10 :> <<197, 135>> @@ 11 :> <<81, 9>> @@
    12 :> <<108, 54>> @@ 13 :> <<135, 108>> @@ 14 :> <<135, 162>> @@
    15 :> <<170, 135>> @@ 16 :> <<188, 135>> @@ 17 :> <<197, 108>> @@
    18 :> <<197, 162>> @@ 19 :> <<215, 162>> @@ 20 :> <<215, 189>> @@
    21 :> <<215, 162>> @@ 22 :> <<233, 162>> @@ 23 :> <<243, 162>> @@
    24 :> <<252, 162>> @@ 25 :> <<252, 135>> @@ 26 :> <<197, 54>> @@
    27 :> <<215, 54>> @@ 28 :> <<252, 54>> @@ 29 :> <<270, 81>> @@
    30 :> <<270, 27>> @@ 31 :> <<270, 9>> @@ 37 :> <<100, 20>> @@
    38 :> <<45, 54>> @@ 39 :> <<170, 162>> @@ 40 :> <<162, 189>> @@
    51 :> <<61, 9>> @@ 52 :> <<61, 0>> @@ 53 :> <<91, 9>> @@
    54 :> <<91, 1>> @@ 55 :> <<100, 54>> @@ 56 :> <<100, 62>> @@
    57 :> <<100, 79>> @@ 58 :> <<100, 45>> @@ 64 :> <<100, 36>> @@
    65 :> <<135, 45>> @@ 66 :> <<135, 72>> @@ 67 :> <<135, 63>> @@
    68 :> <<135, 36>> @@ 69 :> <<135, 54>> @@ 70 :> <<135, 99>> @@
    71 :> <<135, 90>> @@ 72 :> <<162, 126>> @@ 73 :> <<162, 144>> @@
    74 :> <<162, 135>> @@ 75 :> <<162, 117>> @@ 76 :> <<162, 108>> @@
    77 :> <<162, 153>> @@ 78 :> <<162, 162>> @@ 79 :> <<162, 99>> @@
    89 :> <<117, 54>> @@ 108 :> <<135, 135>> @@ 109 :> <<135, 144>> @@
    110 :> <<135, 153>> @@ 164 :> <<197, 189>> @@ 165 :> <<197, 198>> @@
    171 :> <<215, 189>> @@ 172 :> <<215, 81>> @@ 231 :> <<197, 162>> @@
    232 :> <<197, 153>> @@ 233 :> <<197, 144>> @@ 234 :> <<197, 135>> @@
    235 :> <<197, 126>> @@ 236 :> <<197, 117>> @@ 237 :> <<197, 108>>

MAP_COORDINATES_default == <<80, 0>>

\* ExplorationMap.local_to_global: (global_y, global_x)
\* A faulty local_to_global: a result off the grid wraps around it.
local_to_global_wraps(x, y, map_id) ==
    LET anchor == IF map_id \in DOMAIN MAP_COORDINATES
                  THEN MAP_COORDINATES[map_id]
                  ELSE MAP_COORDINATES_default
        global_x == anchor[2] + x + coords_pad * 2
        global_y == GLOBAL_MAP_H - (anchor[1] - y + coords_pad * 2)
    IN  <<global_y % GLOBAL_MAP_H, global_x % GLOBAL_MAP_W>>

\* ExplorationMap.local_to_global: (global_y, global_x)
local_to_global(x, y, map_id) ==
    LET anchor == IF map_id \in DOMAIN MAP_COORDINATES
                  THEN MAP_COORDINATES[map_id]
                  ELSE MAP_COORDINATES_default
        global_x == anchor[2] + x + coords_pad * 2
        global_y == GLOBAL_MAP_H - (anchor[1] - y + coords_pad * 2)
    IN  <<Max(0, Min(global_y, GLOBAL_MAP_H - 1)),
          Max(0, Min(global_x, GLOBAL_MAP_W - 1))>>

\* A faulty update: it reads the cell after marking it.
em_update_marks_first(grid, x, y, map_id) ==
    LET cell == local_to_global(x, y, map_id)
        marked == grid \cup {cell}
    IN  [grid |-> marked, ret |-> ~(cell \in marked)]

\* ExplorationMap.update on the grid: the new grid and the returned flag.
em_update(grid, x, y, map_id) ==
    LET cell == local_to_global(x, y, map_id)
        was_explored == cell \in grid
    IN  [grid |-> grid \cup {cell}, ret |-> ~was_explored]

\* A faulty get_explored_count: the marks (255 each) are summed.
get_explored_count_sums(grid) == 255 * Cardinality(grid)

\* ExplorationMap.get_explored_count
get_explored_count(grid) == Cardinality(grid)

\* ExplorationMap.reset
em_reset == {}

\* ExplorationMap.__init__
EmInit ==
    /\ explore_map = {}
    /\ em_hist = <<>>

\* Arguments of update: map 0 (Pallet Town), map 8 (Cinnabar Island, whose
\* rows clamp to 0 for y < 86), and map 255, which has no anchor.
EmXs   == {0, 1}
EmYs   == {0, 1, 90}
EmMaps == {0, 8, 255}

EmUpdate ==
    /\ Len(em_hist) < MaxMapCalls
    /\ \E x \in EmXs, y \in EmYs, map_id \in EmMaps :
          LET r == em_update(explore_map, x, y, map_id)
          IN  /\ explore_map' = r.grid
              /\ em_hist' = Append(em_hist,
                     [x |-> x, y |-> y, map_id |-> map_id, ret |-> r.ret])
    /\ UNCHANGED emOthers

\* update called with coordinates far outside every map, on map 0, on map
\* 8 and on map 255, which has no anchor; the cell local_to_global returned
\* is recorded with the call.
MaxFarCalls == 2
FarXs   == {-1000, 0, 1, 1000}
FarYs   == {-1000, 0, 90, 1000}

EmUpdateFar ==
    /\ Len(em_hist) < MaxFarCalls
    /\ \E x \in FarXs, y \in FarYs, map_id \in EmMaps :
          LET r == em_update(explore_map, x, y, map_id)
          IN  /\ explore_map' = r.grid
              /\ em_hist' = Append(em_hist,
                     [x |-> x, y |-> y, map_id |-> map_id, ret |-> r.ret,
                      cell |-> local_to_global(x, y, map_id)])
    /\ UNCHANGED emOthers

\* update and reset, each followed by get_explored_count; the history is
\* kept over the resets and records them.
MaxCountCalls == 3

EmUpdateCount ==
    /\ Len(em_hist) < MaxCountCalls
    /\ \E x \in EmXs, y \in EmYs, map_id \in EmMaps :
          LET r == em_update(explore_map, x, y, map_id)
          IN  /\ explore_map' = r.grid
              /\ em_hist' = Append(em_hist,
                     [op |-> "update", x |-> x, y |-> y, map_id |-> map_id,
                      ret |-> r.ret, count |-> get_explored_count(r.grid)])
    /\ UNCHANGED emOthers

EmResetCount ==
    /\ Len(em_hist) < MaxCountCalls
    /\ em_hist # <<>>
    /\ explore_map' = em_reset
    /\ em_hist' = Append(em_hist,
           [op |-> "reset", x |-> 0, y |-> 0, map_id |-> 0,
            ret |-> FALSE, count |-> get_explored_count(em_reset)])
    /\ UNCHANGED emOthers

EmReset ==
    /\ em_hist # <<>>
    /\ explore_map' = em_reset
    /\ em_hist' = <<>>
    /\ UNCHANGED emOthers

(***************************************************************************)
(*                            ScreenExplorer                               *)
(***************************************************************************)

\* Bounds of the screen-explorer model.
MaxAdds == 4       \* add_frame calls between two resets
max_elements == 2  \* self.max_elements

\* Constructor arguments: frames of 1 x 5 x 1 pixels.
FRAME_H == 1
FRAME_W == 5
FRAME_C == 1
similarity_threshold == 2
vec_dim == FRAME_H * FRAME_W * FRAME_C

\* frame.flatten(): the pixel (row, col, channel) of a flattened frame
Pixel(frame, r, c, ch) == frame[(r * FRAME_W + c) * FRAME_C + ch + 1]

\* Squared Euclidean distance (hnswlib space 'l2')
RECURSIVE SqDistFrom(_, _, _)
SqDistFrom(a, b, i) ==
    IF i > Len(a) THEN 0
    ELSE (a[i] - b[i]) * (a[i] - b[i]) + SqDistFrom(a, b, i + 1)
SqDist(a, b) == SqDistFrom(a, b, 1)

\* knn_query(frame_vec, k=1): the distance to the nearest stored vector
NearestDist(index, vec) ==
    LET ds == {SqDist(index[i], vec) : i \in 1..Len(index)}
    IN  CHOOSE d \in ds : \A e \in ds : d <= e

\* ScreenExplorer._add_frame_knn
add_frame_knn(index, count, frame) ==
    IF Len(frame) # vec_dim
    THEN [index |-> index, count |-> count, ret |-> FALSE]
    ELSE IF count >= max_elements
    THEN [index |-> index, count |-> count,
          ret |-> NearestDist(index, frame) > similarity_threshold]
    ELSE IF count > 0 /\ NearestDist(index, frame) < similarity_threshold
    THEN [index |-> index, count |-> count, ret |-> FALSE]
    ELSE [index |-> Append(index, frame), count |-> count + 1, ret |-> TRUE]

\* frame[::4, ::4, :].tobytes(): the pixels of every fourth row and column
Downsample(frame) ==
    [k \in {<<r, c, ch>> \in (0..FRAME_H - 1) \X (0..FRAME_W - 1) \X (0..FRAME_C - 1) :
               r % 4 = 0 /\ c % 4 = 0} |-> Pixel(frame, k[1], k[2], k[3])]

\* hash(downsampled): equal bytes hash equally; two different byte strings
\* are taken to hash differently.
FrameHash(frame) == Downsample(frame)

\* A faulty hash fallback: it never records the hash.
add_frame_hash_forgets(hashes, count, frame) ==
    LET frame_hash == FrameHash(frame)
    IN  IF frame_hash \notin hashes
        THEN [hashes |-> hashes, count |-> count + 1, ret |-> TRUE]
        ELSE [hashes |-> hashes, count |-> count, ret |-> FALSE]

\* ScreenExplorer._add_frame_hash
add_frame_hash(hashes, count, frame) ==
    LET frame_hash == FrameHash(frame)
    IN  IF frame_hash \notin hashes
        THEN [hashes |-> hashes \cup {frame_hash}, count |-> count + 1,
              ret |-> TRUE]
        ELSE [hashes |-> hashes, count |-> count, ret |-> FALSE]

\* ScreenExplorer.add_frame
add_frame(frame) ==
    IF use_knn
    THEN LET r == add_frame_knn(knn_index, frame_count, frame)
         IN  /\ knn_index' = r.index
             /\ frame_count' = r.count
             /\ sc_hist' = Append(sc_hist, [frame |-> frame, ret |-> r.ret])
             /\ UNCHANGED <<use_knn, seen_frame_hashes>>
    ELSE LET r == add_frame_hash(seen_frame_hashes, frame_count, frame)
         IN  /\ seen_frame_hashes' = r.hashes
             /\ frame_count' = r.count
             /\ sc_hist' = Append(sc_hist, [frame |-> frame, ret |-> r.ret])
             /\ UNCHANGED <<use_knn, knn_index>>

\* ScreenExplorer.reset
sc_reset ==
    /\ IF use_knn
       THEN knn_index' = <<>> /\ UNCHANGED seen_frame_hashes
       ELSE seen_frame_hashes' = {} /\ UNCHANGED knn_index
    /\ frame_count' = 0
    /\ sc_hist' = <<>>
    /\ UNCHANGED use_knn

\* ScreenExplorer.reset when _init_knn_index raises inside its try block:
\* the handler turns the nearest-neighbour mode off and returns before
\* frame_count is zeroed; the index is the old one when hnswlib.Index
\* raised, and a new, empty one when init_index raised.
sc_reset_init_fails ==
    /\ use_knn
    /\ use_knn' = FALSE
    /\ knn_index' \in {knn_index, <<>>}
    /\ sc_hist' = <<>>
    /\ UNCHANGED <<seen_frame_hashes, frame_count>>

\* ScreenExplorer.__init__: use_knn = HNSWLIB_AVAILABLE
ScInit ==
    /\ use_knn \in BOOLEAN
    /\ knn_index = <<>>
    /\ seen_frame_hashes = {}
    /\ frame_count = 0
    /\ sc_hist = <<>>

\* Frames of the configured shape.  Squared distances from the first:
\* 0, 1, 2 (the threshold), 3 and 5; the first two differ only outside the
\* downsampling grid.
ScFrames == {<<0, 0, 0, 0, 0>>, <<0, 1, 0, 0, 0>>, <<0, 1, 1, 0, 0>>,
             <<1, 1, 1, 0, 0>>, <<2, 0, 0, 0, 1>>}

ScAddFrame ==
    /\ Len(sc_hist) < MaxAdds
    /\ \E frame \in ScFrames : add_frame(frame)
    /\ UNCHANGED scOthers

ScReset ==
    /\ sc_hist # <<>>
    /\ sc_reset
    /\ UNCHANGED scOthers

ScResetInitFails ==
    /\ sc_hist # <<>>
    /\ sc_reset_init_fails
    /\ UNCHANGED scOthers

(***************************************************************************)
(*                            QLearningAgent                               *)
(***************************************************************************)

\* Bound of the agent model: update calls of one agent.
MaxUpdates == 2

\* Constructor arguments: learning rate and discount (both in 0..1).
alpha == Rat(1, 2)
gamma == Rat(1, 2)
QActions == <<"UP", "DOWN">>    \* self.actions

AUTOSAVE_EVERY == 100   \* update: total_updates % 100 == 0

NoFile == [exists |-> FALSE]

\* The game states handed to the agent: A and A2 are two positions on one
\* map, B is on another map.
QStateA  == [map_id |-> 1, badges |-> 0, x |-> 3]
QStateA2 == [map_id |-> 1, badges |-> 0, x |-> 4]
QStateB  == [map_id |-> 2, badges |-> 0, x |-> 3]
QStates == {QStateA, QStateA2, QStateB}
\* The transitions (state, next_state) handed to update.
QTransitions == {<<QStateA, QStateB>>, <<QStateB, QStateB>>}
QRewards == {-1, 0, 1}

\* QLearningAgent.get_state_key: f"map_{state.map_id}_badges_{state.badges}"
get_state_key(state) == <<"map", state.map_id, "badges", state.badges>>

\* defaultdict(lambda: defaultdict(float)): reading self.q_table[key]
\* inserts an empty inner table for a missing key.
TouchState(table, key) ==
    IF key \in DOMAIN table THEN table ELSE (key :> <<>>) @@ table

\* Reading self.q_table[key][action] inserts 0.0 for a missing action.
TouchAction(table, key, action) ==
    LET t == TouchState(table, key)
    IN  IF action \in DOMAIN t[key] THEN t
        ELSE [t EXCEPT ![key] = (action :> Zero) @@ t[key]]

\* self.q_table[key][action] = value
SetValue(table, key, action, value) ==
    LET t == TouchState(table, key)
    IN  [t EXCEPT ![key] = (action :> value) @@ t[key]]

\* next_q_values.values(), and max(...) if next_q_values else 0.0
Values(row) == {row[a] : a \in DOMAIN row}
MaxNextQ(row) == IF DOMAIN row # {} THEN RatMaxOf(Values(row)) ELSE Zero

\* The document save_q_table writes: json.dumps keeps every state key, the
\* ones with an empty inner table too.  A finite float survives
\* json.dumps / json.loads unchanged (repr round-trips), so a value is
\* written as itself.
Document(table, updates, explored) ==
    [exists |-> TRUE,
     q_table |-> [st \in DOMAIN table |-> table[st]],
     total_updates |-> updates,
     states_explored |-> Cardinality(explored),
     alpha |-> alpha, gamma |-> gamma]

\* A faulty load: it skips the values that are 0.0 (if value: ...).
LoadTable_skips_zero(loaded_table) ==
    LET kept(k) == {a \in DOMAIN loaded_table[k] : loaded_table[k][a] # Zero}
    IN  [st \in {k \in DOMAIN loaded_table : kept(k) # {}} |->
            [a \in kept(st) |-> loaded_table[st][a]]]

\* load_q_table: the nested loop assigns q_table[state][action] = value, so
\* a state whose inner table is empty is not created.
LoadTable(loaded_table) ==
    [st \in {k \in DOMAIN loaded_table : DOMAIN loaded_table[k] # {}} |->
        loaded_table[st]]

\* A faulty update: the count is tested before it is incremented.
q_update_tests_before(table, updates, explored, file, path, state, action, reward, next_state, done) ==
    LET state_key == get_state_key(state)
        next_state_key == get_state_key(next_state)
        t1 == TouchAction(table, state_key, action)
        current_q == t1[state_key][action]
        t2 == IF done THEN t1 ELSE TouchState(t1, next_state_key)
        max_next_q == IF done THEN Zero ELSE MaxNextQ(t2[next_state_key])
        new_q == RatAdd(current_q,
                     RatMul(alpha,
                         RatSub(RatAdd(RatOfInt(reward),
                                       RatMul(gamma, max_next_q)),
                                current_q)))
        t3 == SetValue(t2, state_key, action, new_q)
        n == updates + 1
        saves == updates % AUTOSAVE_EVERY = 0 /\ path
    IN  [table |-> t3, updates |-> n,
         file |-> IF saves THEN Document(t3, n, explored) ELSE file,
         saved |-> saves]

\* QLearningAgent.update: the table, counter and file after the call.
q_update(table, updates, explored, file, path, state, action, reward, next_state, done) ==
    LET state_key == get_state_key(state)
        next_state_key == get_state_key(next_state)
        t1 == TouchAction(table, state_key, action)
        current_q == t1[state_key][action]
        t2 == IF done THEN t1 ELSE TouchState(t1, next_state_key)
        max_next_q == IF done THEN Zero ELSE MaxNextQ(t2[next_state_key])
        new_q == RatAdd(current_q,
                     RatMul(alpha,
                         RatSub(RatAdd(RatOfInt(reward),
                                       RatMul(gamma, max_next_q)),
                                current_q)))
        t3 == SetValue(t2, state_key, action, new_q)
        n == updates + 1
        saves == n % AUTOSAVE_EVERY = 0 /\ path
    IN  [table |-> t3, updates |-> n,
         file |-> IF saves THEN Document(t3, n, explored) ELSE file,
         saved |-> saves]

\* QLearningAgent.update
update(state, action, reward, next_state, done) ==
    LET r == q_update(q_table, total_updates, states_explored, q_file,
                      q_table_path, state, action, reward, next_state, done)
    IN  /\ q_table' = r.table
        /\ total_updates' = r.updates
        /\ q_file' = r.file
        /\ q_at_save' = IF r.saved THEN r.table ELSE q_at_save
        /\ q_call' = [op |-> "update", state |-> state, action |-> action,
                      reward |-> reward, next_state |-> next_state,
                      done |-> done]
        /\ UNCHANGED <<q_table_path, states_explored>>

\* A faulty maximum: among several maximal actions the last one is taken.
FirstBest_takes_last(available_actions, q_values) ==
    LET val(a) == IF a \in DOMAIN q_values THEN q_values[a] ELSE Zero
        i == CHOOSE k \in 1..Len(available_actions) :
                /\ \A j \in 1..Len(available_actions) :
                      RatLE(val(available_actions[j]), val(available_actions[k]))
                /\ \A j \in (k + 1)..Len(available_actions) :
                      RatLT(val(available_actions[j]), val(available_actions[k]))
    IN  available_actions[i]

\* max(available_actions, key=...): the first action of the list whose value
\* is maximal.
FirstBest(available_actions, q_values) ==
    LET val(a) == IF a \in DOMAIN q_values THEN q_values[a] ELSE Zero
        i == CHOOSE k \in 1..Len(available_actions) :
                /\ \A j \in 1..Len(available_actions) :
                      RatLE(val(available_actions[j]), val(available_actions[k]))
                /\ \A j \in 1..(k - 1) :
                      RatLT(val(available_actions[j]), val(available_actions[k]))
    IN  available_actions[i]

\* QLearningAgent.select_action: explores is random.random() < self.epsilon
\* and pick is what random.choice(available_actions) returns.
select_action(state, available_actions, explores, pick) ==
    LET state_key == get_state_key(state)
        returns(action, is_exploration) ==
            [op |-> "select_action", state |-> state,
             available_actions |-> available_actions,
             action |-> action, is_exploration |-> is_exploration]
    IN  /\ states_explored' = states_explored \cup {state_key}
        /\ IF explores
           THEN /\ q_call' = returns(pick, TRUE)
                /\ UNCHANGED q_table
           ELSE LET t == TouchState(q_table, state_key)
                    q_values == t[state_key]
                IN  /\ q_table' = t
                    /\ q_call' =
                         IF DOMAIN q_values = {}
                         THEN returns(pick, TRUE)
                         ELSE returns(FirstBest(available_actions, q_values), FALSE)
        /\ UNCHANGED <<q_table_path, total_updates, q_file, q_at_save>>

\* QLearningAgent.save_q_table
save_q_table ==
    /\ IF ~q_table_path
       THEN UNCHANGED <<q_file, q_at_save>>
       ELSE /\ q_file' = Document(q_table, total_updates, states_explored)
            /\ q_at_save' = q_table
    /\ q_call' = [op |-> "save_q_table"]
    /\ UNCHANGED <<q_table_path, q_table, total_updates, states_explored>>

\* The files no save_q_table wrote: text json.loads cannot parse, a JSON
\* value that is not an object (data.get raises), an object whose "q_table"
\* is not an object (.items() raises), and an object with no "q_table" key
\* (data.get("q_table", {}) gives the empty table).
MalformedKinds == {"unparsable", "not_an_object", "table_not_an_object", "no_table"}
MalformedFile(kind) == [exists |-> TRUE, malformed |-> kind]
Malformed(file) == "malformed" \in DOMAIN file
LoadRaises(file) == Malformed(file) /\ file.malformed # "no_table"

\* QLearningAgent.load_q_table on a newly constructed agent; when it
\* raises, the constructor raises and there is no agent.
load_q_table ==
    IF ~q_table_path \/ ~q_file.exists \/ Malformed(q_file)
    THEN /\ q_table' = <<>>
         /\ total_updates' = 0
         /\ states_explored' = {}
    ELSE LET loaded == LoadTable(q_file.q_table)
         IN  /\ q_table' = loaded
             /\ total_updates' = q_file.total_updates
             /\ states_explored' = DOMAIN loaded

\* QLearningAgent.__init__ of a new agent on the same path: the process is
\* started again and the agent loads what the file holds.
q_restart ==
    /\ load_q_table
    /\ q_call' = IF q_table_path /\ LoadRaises(q_file)
                 THEN [op |-> "init_raised"] ELSE [op |-> "init"]
    /\ UNCHANGED <<q_table_path, q_file, q_at_save>>

\* QLearningAgent.__init__ with no file at q_table_path
QInit ==
    /\ q_table_path \in BOOLEAN
    /\ q_table = <<>>
    /\ total_updates = 0
    /\ states_explored = {}
    /\ q_file = NoFile
    /\ q_at_save = <<>>
    /\ q_call = [op |-> "new"]

QAvailable == {QActions, <<"DOWN">>, <<"DOWN", "UP">>}   \* available_actions arguments

QUpdate ==
    /\ total_updates < MaxUpdates
    /\ \E tr \in QTransitions, reward \in QRewards, done \in BOOLEAN,
          i \in 1..Len(QActions) :
           update(tr[1], QActions[i], reward, tr[2], done)
    /\ UNCHANGED qOthers

QSelectAction ==
    /\ \E state \in QStates, available_actions \in QAvailable,
          explores \in BOOLEAN :
           \E i \in 1..Len(available_actions) :
              select_action(state, available_actions, explores,
                            available_actions[i])
    /\ UNCHANGED qOthers

QSave ==
    /\ save_q_table
    /\ UNCHANGED qOthers

QRestart ==
    /\ q_restart
    /\ UNCHANGED qOthers

\* A long run of updates that leave every value at 0.0 (reward 0), with
\* restarts of the process in between.
MaxRunUpdates == 201

QRunUpdate ==
    /\ total_updates < MaxRunUpdates
    /\ \E done \in BOOLEAN : update(QStateA, "UP", 0, QStateB, done)
    /\ UNCHANGED qOthers

\* The file at q_table_path is replaced by a malformed one.
QCorrupt ==
    /\ q_table_path
    /\ ~Malformed(q_file)
    /\ \E kind \in MalformedKinds : q_file' = MalformedFile(kind)
    /\ UNCHANGED <<q_table_path, q_table, total_updates, states_explored,
                   q_at_save, q_call>>
    /\ UNCHANGED qOthers

\* update and save_q_table of an agent whose constructor returned.
QLiveUpdate == q_call.op # "init_raised" /\ QUpdate
QLiveSave == q_call.op # "init_raised" /\ QSave

(***************************************************************************)
(*                 pokemon_memory (the emulator's memory)                  *)
(***************************************************************************)

\* The addresses of MEMORY_MAP the reward calculator reads.
MEMORY_MAP ==
    [PARTY_COUNT       |-> 53603,   \* 0xD163
     EVENT_FLAGS_START |-> 55111,   \* 0xD747
     EVENT_FLAGS_END   |-> 55422,   \* 0xD87E
     MUSEUM_TICKET     |-> 55124,   \* 0xD754
     PARTY_LEVEL       |-> <<53644, 53688, 53732, 53776, 53820, 53864>>,
     PARTY_HP          |-> <<53613, 53657, 53701, 53745, 53789, 53833>>,
     PARTY_MAX_HP      |-> <<53645, 53689, 53733, 53777, 53821, 53865>>,
     OPP_LEVEL         |-> <<55493, 55537, 55581, 55625, 55669, 55713>>,
     BATTLE_TYPE       |-> 53335]   \* 0xD057

\* memory_reader.read_memory: a memory is a function from the addresses that
\* hold a non-default byte to their byte; every other address reads 0.
read_memory(m, address) == IF address \in DOMAIN m THEN m[address] ELSE 0

\* bit_count: bin(byte_value).count('1')
RECURSIVE bit_count(_)
bit_count(byte_value) ==
    IF byte_value = 0 THEN 0
    ELSE (byte_value % 2) + bit_count(byte_value \div 2)

\* read_bit: bool((byte_value >> bit_index) & 1)
read_bit(byte_value, bit_index) == (byte_value \div (2 ^ bit_index)) % 2 = 1

\* read_hp_16bit: (high << 8) | low
read_hp_16bit(high, low) == high * 256 + low

RECURSIVE SeqSum(_)
SeqSum(q) == IF q = <<>> THEN 0 ELSE Head(q) + SeqSum(Tail(q))

RECURSIVE SeqMax(_)
SeqMax(q) == IF Len(q) = 1 THEN q[1] ELSE Max(Head(q), SeqMax(Tail(q)))

\* The sum of f[e] over the elements e of S.
RECURSIVE SetSum(_, _)
SetSum(S, f) ==
    IF S = {} THEN 0
    ELSE LET e == CHOOSE v \in S : TRUE IN f[e] + SetSum(S \ {e}, f)

\* get_party_levels: level_addresses[:party_count]
get_party_levels(m) ==
    LET party_count == read_memory(m, MEMORY_MAP.PARTY_COUNT)
    IN  [i \in 1..Min(party_count, 6) |-> read_memory(m, MEMORY_MAP.PARTY_LEVEL[i])]

\* get_opponent_levels: all six addresses, whatever the battle state
get_opponent_levels(m) ==
    [i \in 1..6 |-> read_memory(m, MEMORY_MAP.OPP_LEVEL[i])]

\* get_hp_fraction
get_hp_fraction(m) ==
    LET party_count == read_memory(m, MEMORY_MAP.PARTY_COUNT)
        slots == 1..Min(party_count, 6)
        hp == [i \in slots |->
                  read_hp_16bit(read_memory(m, MEMORY_MAP.PARTY_HP[i]),
                                read_memory(m, MEMORY_MAP.PARTY_HP[i] + 1))]
        max_hp == [i \in slots |->
                  read_hp_16bit(read_memory(m, MEMORY_MAP.PARTY_MAX_HP[i]),
                                read_memory(m, MEMORY_MAP.PARTY_MAX_HP[i] + 1))]
        total_hp == SetSum(slots, hp)
        total_max_hp == SetSum(slots, max_hp)
    IN  IF party_count = 0 THEN RatOfInt(1)
        ELSE Rat(total_hp, Max(total_max_hp, 1))

\* count_event_flags: the set bits of the bytes in
\* range(EVENT_FLAGS_START, EVENT_FLAGS_END); the addresses outside DOMAIN m
\* read 0 and add nothing.
count_event_flags(m) ==
    LET flag_addresses == {a \in DOMAIN m : /\ a >= MEMORY_MAP.EVENT_FLAGS_START
                                             /\ a < MEMORY_MAP.EVENT_FLAGS_END}
    IN  SetSum(flag_addresses,
               [address \in flag_addresses |-> bit_count(read_memory(m, address))])

\* is_in_battle
is_in_battle(m) == read_memory(m, MEMORY_MAP.BATTLE_TYPE) > 0

(***************************************************************************)
(*                           RewardCalculator                              *)
(***************************************************************************)

\* Bound of the reward model: the number of calculate_reward calls of a run.
MaxCalcs == 2

\* self.reward_scale, self.explore_weight, self.max_history (set by __init__
\* and never changed)
reward_scale == RatOfInt(1)
explore_weight == RatOfInt(1)
max_history == 10

RewardKeys == {"badge", "event", "level", "explore", "opponent", "heal",
               "death", "stuck", "loop", "total"}
NoRewards == [k \in RewardKeys |-> Zero]
EmptyMemory == <<>>

\* The monotonic trackers, and the metric each of them follows in a memory m
\* and a map grid: the event flags of the episode (the museum ticket's bit
\* not counted), the scaled level sum, the opponent level above 5 while in
\* battle, the explored tiles.
Trackers == {"event", "level", "opponent", "explore"}

EventsThisEpisode(m, base) ==
    LET museum == read_bit(read_memory(m, MEMORY_MAP.MUSEUM_TICKET), 0)
    IN  Max(0, count_event_flags(m) - (IF museum THEN 1 ELSE 0) - base)

ScaledLevelSum(m) ==
    LET levels == get_party_levels(m)
        raw == SeqSum([i \in DOMAIN levels |-> Max(levels[i] - 2, 0)])
        level_sum == Max(0, raw - 4)
    IN  IF level_sum < 22 THEN RatOfInt(level_sum)
        ELSE RatAdd(Rat(level_sum - 22, 4), RatOfInt(22))

MaxOppLevel(m) ==
    IF is_in_battle(m) THEN Max(0, SeqMax(get_opponent_levels(m)) - 5) ELSE 0

TrackerMetrics(m, base, grid) ==
    [event    |-> RatOfInt(EventsThisEpisode(m, base)),
     level    |-> ScaledLevelSum(m),
     opponent |-> RatOfInt(MaxOppLevel(m)),
     explore  |-> RatOfInt(get_explored_count(grid))]

\* A faulty _badge_reward: every badge held is paid when one is earned.
badge_reward_pays_total(prev_state, curr_state) ==
    IF curr_state.badges > prev_state.badges
    THEN RatMul(RatMul(reward_scale, RatOfInt(curr_state.badges)), RatOfInt(10))
    ELSE Zero

\* RewardCalculator._badge_reward
badge_reward(prev_state, curr_state) ==
    IF curr_state.badges > prev_state.badges
    THEN LET badge_increase == curr_state.badges - prev_state.badges
         IN  RatMul(RatMul(reward_scale, RatOfInt(badge_increase)), RatOfInt(10))
    ELSE Zero

\* A faulty _event_reward: it follows the current count, not its maximum.
event_reward_follows_count(reader, m, base, max_events) ==
    LET counted == count_event_flags(m)
        museum_byte == read_memory(m, MEMORY_MAP.MUSEUM_TICKET)
        current_events == IF read_bit(museum_byte, 0)
                          THEN counted - 1 ELSE counted
        monotonic(events_this_episode) ==
            IF events_this_episode # max_events
            THEN [reward |-> RatMul(RatMul(reward_scale,
                                 RatOfInt(events_this_episode - max_events)),
                                 RatOfInt(4)),
                  max_event_flags |-> events_this_episode]
            ELSE [reward |-> Zero, max_event_flags |-> max_events]
    IN  IF ~reader THEN [reward |-> Zero, max_event_flags |-> max_events]
        ELSE monotonic(Max(0, current_events - base))

\* RewardCalculator._event_reward: the reward and the tracker after the call.
event_reward(reader, m, base, max_events) ==
    LET counted == count_event_flags(m)
        museum_byte == read_memory(m, MEMORY_MAP.MUSEUM_TICKET)
        current_events == IF read_bit(museum_byte, 0)
                          THEN counted - 1 ELSE counted
        monotonic(events_this_episode) ==
            IF events_this_episode > max_events
            THEN [reward |-> RatMul(RatMul(reward_scale,
                                 RatOfInt(events_this_episode - max_events)),
                                 RatOfInt(4)),
                  max_event_flags |-> events_this_episode]
            ELSE [reward |-> Zero, max_event_flags |-> max_events]
    IN  IF ~reader THEN [reward |-> Zero, max_event_flags |-> max_events]
        ELSE monotonic(Max(0, current_events - base))

\* A faulty _level_reward: the part above the threshold is divided with
\* floor division.
level_reward_floor_division(reader, m, max_level) ==
    LET party_levels == get_party_levels(m)
        min_poke_level == 2
        starter_additional_levels == 4
        summed == SeqSum([i \in DOMAIN party_levels |->
                             Max(party_levels[i] - min_poke_level, 0)])
        level_sum == Max(0, summed - starter_additional_levels)
        explore_threshold == 22
        scale_factor == 4
        scaled(total) ==
            IF total < explore_threshold THEN RatOfInt(total)
            ELSE RatOfInt(((total - explore_threshold) \div scale_factor)
                              + explore_threshold)
        monotonic(scaled_level_sum) ==
            IF RatLT(max_level, scaled_level_sum)
            THEN [reward |-> RatMul(reward_scale,
                                    RatSub(scaled_level_sum, max_level)),
                  max_level_sum |-> scaled_level_sum]
            ELSE [reward |-> Zero, max_level_sum |-> max_level]
    IN  IF ~reader \/ party_levels = <<>>
        THEN [reward |-> Zero, max_level_sum |-> max_level]
        ELSE monotonic(scaled(level_sum))

\* RewardCalculator._level_reward
level_reward(reader, m, max_level) ==
    LET party_levels == get_party_levels(m)
        min_poke_level == 2
        starter_additional_levels == 4
        summed == SeqSum([i \in DOMAIN party_levels |->
                             Max(party_levels[i] - min_poke_level, 0)])
        level_sum == Max(0, summed - starter_additional_levels)
        explore_threshold == 22
        scale_factor == 4
        scaled(total) ==
            IF total < explore_threshold THEN RatOfInt(total)
            ELSE RatAdd(Rat(total - explore_threshold, scale_factor),
                        RatOfInt(explore_threshold))
        monotonic(scaled_level_sum) ==
            IF RatLT(max_level, scaled_level_sum)
            THEN [reward |-> RatMul(reward_scale,
                                    RatSub(scaled_level_sum, max_level)),
                  max_level_sum |-> scaled_level_sum]
            ELSE [reward |-> Zero, max_level_sum |-> max_level]
    IN  IF ~reader \/ party_levels = <<>>
        THEN [reward |-> Zero, max_level_sum |-> max_level]
        ELSE monotonic(scaled(level_sum))

\* f"x:{x} y:{y} m:{map_id}" and f"{location}_{map_id}": one string per
\* tuple of integers, and per (location, integer) pair.
coord_string(state) == <<state.x, state.y, state.map_id>>
\* A faulty location key: the map id is left out.
location_key_name_only(state) == <<state.location>>

\* _exploration_reward: location_key = f"{curr_state.location}_{curr_state.map_id}"
location_key(state) == <<state.location, state.map_id>>

\* RewardCalculator._exploration_reward
exploration_reward(grid, seen, visited, max_tiles, curr_state) ==
    LET c == coord_string(curr_state)
        counted == IF c \in DOMAIN seen THEN seen ELSE seen @@ (c :> 0)
        key == location_key(curr_state)
        location_reward ==
            IF key \notin visited THEN RatMul(reward_scale, RatOfInt(5))
            ELSE Zero
        after(is_new_tile, marked, explored_count) ==
            LET raises == is_new_tile /\ explored_count > max_tiles
                tile_increase == explored_count - max_tiles
                tile_reward ==
                    IF raises
                    THEN RatMul(RatMul(RatMul(reward_scale, explore_weight),
                                       RatOfInt(tile_increase)), Rat(1, 10))
                    ELSE Zero
            IN  [reward |-> RatAdd(tile_reward, location_reward),
                 explore_map |-> marked,
                 max_explored_tiles |->
                     IF raises THEN explored_count ELSE max_tiles,
                 seen_coords |-> [counted EXCEPT ![c] = @ + 1],
                 visited_locations |-> visited \cup {key}]
        updated(upd) == after(upd.ret, upd.grid, get_explored_count(upd.grid))
    IN  updated(em_update(grid, curr_state.x, curr_state.y, curr_state.map_id))

\* RewardCalculator._opponent_level_reward
opponent_level_reward(reader, m, max_opponent) ==
    LET opponent_levels == get_opponent_levels(m)
        monotonic(max_opp_level) ==
            IF max_opp_level > max_opponent
            THEN [reward |-> RatMul(RatMul(reward_scale,
                                 RatOfInt(max_opp_level - max_opponent)),
                                 Rat(1, 2)),
                  max_opponent_level |-> max_opp_level]
            ELSE [reward |-> Zero, max_opponent_level |-> max_opponent]
    IN  IF ~reader \/ ~is_in_battle(m)
        THEN [reward |-> Zero, max_opponent_level |-> max_opponent]
        ELSE monotonic(Max(0, SeqMax(opponent_levels) - 5))

\* A faulty healing reward: the party size is not compared.
healing_reward_ignores_party(reader, m, last, size, died, total_healing) ==
    LET unchanged == [reward |-> Zero, died_count |-> died,
                      total_healing_reward |-> total_healing]
        paid(reward) == [reward |-> reward, died_count |-> died,
                         total_healing_reward |-> RatAdd(total_healing, reward)]
        check(current_health) ==
            IF RatLT(last, current_health)
            THEN IF RatLT(Zero, last)
                 THEN paid(RatMul(RatMul(reward_scale,
                               RatSub(current_health, last)), RatOfInt(10)))
                 ELSE [unchanged EXCEPT !.died_count = died + 1]
            ELSE unchanged
    IN  IF ~reader THEN unchanged ELSE check(get_hp_fraction(m))

\* RewardCalculator._healing_reward
healing_reward(reader, m, last, size, died, total_healing) ==
    LET current_party_size == read_memory(m, MEMORY_MAP.PARTY_COUNT)
        unchanged == [reward |-> Zero, died_count |-> died,
                      total_healing_reward |-> total_healing]
        paid(reward) == [reward |-> reward, died_count |-> died,
                         total_healing_reward |-> RatAdd(total_healing, reward)]
        check(current_health) ==
            IF RatLT(last, current_health) /\ current_party_size = size
            THEN IF RatLT(Zero, last)
                 THEN paid(RatMul(RatMul(reward_scale,
                               RatSub(current_health, last)), RatOfInt(10)))
                 ELSE [unchanged EXCEPT !.died_count = died + 1]
            ELSE unchanged
    IN  IF ~reader THEN unchanged ELSE check(get_hp_fraction(m))

\* A faulty death penalty: one deduction however many deaths were counted.
death_penalty_flat(died) ==
    RatMul(RatMul(reward_scale, RatOfInt(Min(died, 1))), Rat(-1, 10))

\* RewardCalculator._death_penalty: reward_scale * died_count * -0.1
death_penalty(died) ==
    RatMul(RatMul(reward_scale, RatOfInt(died)), Rat(-1, 10))

\* A faulty stuck test: the threshold itself is penalised.
stuck_penalty_at_threshold(seen, curr_state) ==
    LET c == coord_string(curr_state)
        visit_count == IF c \in DOMAIN seen THEN seen[c] ELSE 0
    IN  IF visit_count >= 600 THEN RatMul(reward_scale, Rat(-5, 100)) ELSE Zero

\* RewardCalculator._stuck_penalty
stuck_penalty(seen, curr_state) ==
    LET c == coord_string(curr_state)
        visit_count == IF c \in DOMAIN seen THEN seen[c] ELSE 0
    IN  IF visit_count > 600 THEN RatMul(reward_scale, Rat(-5, 100)) ELSE Zero

\* A faulty loop test: the history must have overflowed before it is judged.
loop_penalty_after_overflow(history, curr_state) ==
    LET current_pos == <<curr_state.x, curr_state.y, curr_state.map_id>>
        appended == Append(history, current_pos)
        kept == IF Len(appended) > max_history THEN Tail(appended) ELSE appended
        unique_positions == Cardinality({kept[i] : i \in DOMAIN kept})
    IN  [reward |-> IF Len(appended) > max_history /\ unique_positions <= 3
                    THEN RatOfInt(-1) ELSE Zero,
         position_history |-> kept]

\* RewardCalculator._loop_penalty
loop_penalty(history, curr_state) ==
    LET current_pos == <<curr_state.x, curr_state.y, curr_state.map_id>>
        appended == Append(history, current_pos)
        kept == IF Len(appended) > max_history THEN Tail(appended) ELSE appended
        unique_positions == Cardinality({kept[i] : i \in DOMAIN kept})
    IN  [reward |-> IF Len(kept) >= max_history /\ unique_positions <= 3
                    THEN RatOfInt(-1) ELSE Zero,
         position_history |-> kept]

\* A faulty tracking update: the health of the step is not remembered.
update_tracking_keeps_health(reader, m, last, size) ==
    IF reader
    THEN [last_health |-> last,
          party_size |-> read_memory(m, MEMORY_MAP.PARTY_COUNT)]
    ELSE [last_health |-> last, party_size |-> size]

\* RewardCalculator._update_tracking
update_tracking(reader, m, last, size) ==
    IF reader
    THEN [last_health |-> get_hp_fraction(m),
          party_size |-> read_memory(m, MEMORY_MAP.PARTY_COUNT)]
    ELSE [last_health |-> last, party_size |-> size]

\* A faulty grace test: the grace period lasts one step longer.
in_grace_period_longer(steps, grace) == steps - 1 <= grace

\* calculate_reward: in_grace_period = self.step_count <= self.grace_period
in_grace_period(steps, grace) == steps <= grace

\* RewardCalculator.calculate_reward, reading the memory m; each helper is
\* called once, and its result is bound to a name.
calculate_reward(prev_state, curr_state, m) ==
    \E event \in {event_reward(memory_reader, m, base_event_flags, max_event_flags)},
       level \in {level_reward(memory_reader, m, max_level_sum)},
       explore \in {exploration_reward(explore_map, seen_coords,
                       visited_locations, max_explored_tiles, curr_state)},
       opponent \in {opponent_level_reward(memory_reader, m, max_opponent_level)},
       heal \in {healing_reward(memory_reader, m, last_health, party_size,
                               died_count, total_healing_reward)},
       tracking \in {update_tracking(memory_reader, m, last_health, party_size)} :
    \E metrics \in {TrackerMetrics(m, base_event_flags, explore.explore_map)} :
    LET steps == step_count + 1
        death == death_penalty(heal.died_count)
        stuck == IF in_grace_period(steps, grace_period) THEN Zero
                 ELSE stuck_penalty(explore.seen_coords, curr_state)
        loop == IF in_grace_period(steps, grace_period)
                THEN [reward |-> Zero, position_history |-> position_history]
                ELSE loop_penalty(position_history, curr_state)
        badge == badge_reward(prev_state, curr_state)
        total == RatAdd(badge, RatAdd(event.reward, RatAdd(level.reward,
                 RatAdd(explore.reward, RatAdd(opponent.reward,
                 RatAdd(heal.reward, RatAdd(death, RatAdd(stuck,
                 loop.reward))))))))
        nonzero == {t \in Trackers : metrics[t] # Zero}
    IN  /\ step_count' = steps
        /\ max_event_flags' = event.max_event_flags
        /\ max_level_sum' = level.max_level_sum
        /\ explore_map' = explore.explore_map
        /\ max_explored_tiles' = explore.max_explored_tiles
        /\ seen_coords' = explore.seen_coords
        /\ visited_locations' = explore.visited_locations
        /\ max_opponent_level' = opponent.max_opponent_level
        /\ died_count' = heal.died_count
        /\ total_healing_reward' = heal.total_healing_reward
        /\ position_history' = loop.position_history
        /\ last_health' = tracking.last_health
        /\ party_size' = tracking.party_size
        /\ rewards' = [badge |-> badge, event |-> event.reward,
                       level |-> level.reward, explore |-> explore.reward,
                       opponent |-> opponent.reward, heal |-> heal.reward,
                       death |-> death, stuck |-> stuck, loop |-> loop.reward,
                       total |-> total]
        /\ mem' = m
        /\ rw_call' = [op |-> "calculate_reward", curr_state |-> curr_state]
        /\ rw_calls' = rw_calls + 1
        /\ rw_first' = nonzero \ rw_nonzero
        /\ rw_nonzero' = rw_nonzero \cup nonzero
        /\ UNCHANGED <<memory_reader, grace_period, base_screen_explore,
                       base_event_flags, rw_premax, em_hist, scVars>>

NoState == [location |-> "", x |-> 0, y |-> 0, map_id |-> 0, badges |-> 0]

\* The trackers whose maximum is non-zero.
RaisedTrackers ==
    {t \in Trackers :
        \/ t = "event" /\ max_event_flags # 0
        \/ t = "level" /\ max_level_sum # Zero
        \/ t = "opponent" /\ max_opponent_level # 0
        \/ t = "explore" /\ max_explored_tiles # 0}

\* A faulty reset: it leaves the four trackers as they are.
rw_reset_keeps_trackers(m) ==
    /\ explore_map' = em_reset
    /\ sc_reset
    /\ visited_locations' = {}
    /\ seen_coords' = <<>>
    /\ position_history' = <<>>
    /\ base_screen_explore' = 0
    /\ base_event_flags' =
           IF memory_reader THEN count_event_flags(m) ELSE base_event_flags
    /\ last_health' = RatOfInt(1)
    /\ party_size' = 1
    /\ died_count' = 0
    /\ total_healing_reward' = Zero
    /\ step_count' = 0
    /\ mem' = m
    /\ rw_call' = [op |-> "reset", curr_state |-> NoState]
    /\ rw_nonzero' = {}
    /\ rw_first' = {}
    /\ rw_premax' = [valid |-> TRUE, raised |-> RaisedTrackers]
    /\ rewards' = NoRewards
    /\ UNCHANGED <<memory_reader, grace_period, rw_calls, em_hist,
                   max_event_flags, max_level_sum, max_opponent_level,
                   max_explored_tiles>>

\* RewardCalculator.reset, reading the memory m
rw_reset(m) ==
    /\ explore_map' = em_reset
    /\ sc_reset
    /\ visited_locations' = {}
    /\ seen_coords' = <<>>
    /\ position_history' = <<>>
    /\ base_screen_explore' = 0
    /\ base_event_flags' =
           IF memory_reader THEN count_event_flags(m) ELSE base_event_flags
    /\ max_event_flags' = 0
    /\ max_level_sum' = Zero
    /\ max_opponent_level' = 0
    /\ max_explored_tiles' = 0
    /\ last_health' = RatOfInt(1)
    /\ party_size' = 1
    /\ died_count' = 0
    /\ total_healing_reward' = Zero
    /\ step_count' = 0
    /\ mem' = m
    /\ rw_call' = [op |-> "reset", curr_state |-> NoState]
    /\ rw_nonzero' = {}
    /\ rw_first' = {}
    /\ rw_premax' = [valid |-> TRUE, raised |-> RaisedTrackers]
    /\ rewards' = NoRewards
    /\ UNCHANGED <<memory_reader, grace_period, rw_calls, em_hist>>

\* The audit of an episode: the visits of each coordinate, the last
\* max_history coordinates visited, the (location, map id) pairs seen, the
\* revives seen, the event flags at the start of the episode and the most
\* that were set since (the museum ticket never counted), the highest
\* effective level sum seen, and the event and level rewards paid.
NoAudit ==
    [visits |-> <<>>, trail |-> <<>>, pairs |-> {}, revives |-> 0,
     c0 |-> 0, cmax |-> 0, smax |-> 0, paid_event |-> Zero, paid_level |-> Zero,
     prev_badges |-> 0]

\* The set event flags of a memory, the museum ticket's not counted.
StoryFlags(m) ==
    count_event_flags(m)
        - (IF read_bit(read_memory(m, MEMORY_MAP.MUSEUM_TICKET), 0) THEN 1 ELSE 0)

\* The effective level sum of a memory: the party's levels above 2, summed,
\* less the starter's 4, not below 0.
EffectiveLevelSum(m) ==
    LET levels == get_party_levels(m)
    IN  Max(0, SeqSum([i \in DOMAIN levels |-> Max(levels[i] - 2, 0)]) - 4)

\* The audit after a calculate_reward call that read m at curr_state, the
\* call before it having read mem.
AuditStep(curr_state, m) ==
    LET c == <<curr_state.x, curr_state.y, curr_state.map_id>>
        before == IF c \in DOMAIN rw_audit.visits THEN rw_audit.visits[c] ELSE 0
        longer == Append(rw_audit.trail, c)
        revived == /\ memory_reader
                   /\ rw_call.op = "calculate_reward"
                   /\ get_hp_fraction(mem) = Zero
                   /\ RatLT(Zero, get_hp_fraction(m))
                   /\ read_memory(m, MEMORY_MAP.PARTY_COUNT)
                          = read_memory(mem, MEMORY_MAP.PARTY_COUNT)
    IN  [visits |-> (c :> before + 1) @@ rw_audit.visits,
         trail |-> IF Len(longer) > max_history THEN Tail(longer) ELSE longer,
         pairs |-> rw_audit.pairs \cup {<<curr_state.location, curr_state.map_id>>},
         revives |-> rw_audit.revives + (IF revived THEN 1 ELSE 0),
         c0 |-> rw_audit.c0,
         cmax |-> Max(rw_audit.cmax, Max(0, StoryFlags(m) - rw_audit.c0)),
         smax |-> Max(rw_audit.smax, EffectiveLevelSum(m)),
         paid_event |-> RatAdd(rw_audit.paid_event, rewards'.event),
         paid_level |-> RatAdd(rw_audit.paid_level, rewards'.level),
         prev_badges |-> rw_audit.prev_badges]

\* The audit after a reset that read m.
AuditReset(m) == [NoAudit EXCEPT !.c0 = StoryFlags(m)]

\* RewardCalculator.__init__, but for the memory_reader and grace_period
\* arguments
RwFields ==
    /\ step_count = 0
    /\ visited_locations = {}
    /\ seen_coords = <<>>
    /\ base_screen_explore = 0
    /\ position_history = <<>>
    /\ base_event_flags = 0
    /\ max_event_flags = 0
    /\ max_level_sum = Zero
    /\ max_opponent_level = 0
    /\ max_explored_tiles = 0
    /\ last_health = RatOfInt(1)
    /\ party_size = 0
    /\ died_count = 0
    /\ total_healing_reward = Zero
    /\ mem = EmptyMemory
    /\ rewards = NoRewards
    /\ rw_call = [op |-> "init", curr_state |-> NoState]
    /\ rw_calls = 0
    /\ rw_nonzero = {}
    /\ rw_first = {}
    /\ rw_premax = [valid |-> FALSE, raised |-> {}]
    /\ rw_audit = NoAudit

RwGracePeriods == {50}

\* RewardCalculator.__init__
RwInit ==
    /\ memory_reader \in BOOLEAN
    /\ grace_period \in RwGracePeriods
    /\ RwFields

\* The bytes a memory of the model holds: the event bytes 0xD747 and 0xD754
\* (the museum ticket is bit 0 of the latter), the party count and the first
\* level, the first HP and maximum HP (low bytes), the battle type and the
\* first opponent level.
RwEventBytes == {<<0, 1>>, <<1, 1>>, <<3, 0>>}
RwParties    == {<<1, 5>>, <<1, 8>>, <<1, 31>>}
RwHps        == {<<20, 20>>}
RwBattles    == {<<0, 9>>, <<1, 7>>, <<1, 9>>}

Memory(e, p, h, b) ==
    (MEMORY_MAP.EVENT_FLAGS_START :> e[1]) @@ (MEMORY_MAP.MUSEUM_TICKET :> e[2]) @@
    (MEMORY_MAP.PARTY_COUNT :> p[1]) @@ (MEMORY_MAP.PARTY_LEVEL[1] :> p[2]) @@
    (MEMORY_MAP.PARTY_HP[1] + 1 :> h[1]) @@ (MEMORY_MAP.PARTY_MAX_HP[1] + 1 :> h[2]) @@
    (MEMORY_MAP.BATTLE_TYPE :> b[1]) @@ (MEMORY_MAP.OPP_LEVEL[1] :> b[2])

\* The memories calculate_reward can read: those of the emulator when a
\* reader is attached, nothing otherwise.
RwMemories ==
    IF memory_reader
    THEN {Memory(e, p, h, b) : e \in RwEventBytes, p \in RwParties,
                               h \in RwHps, b \in RwBattles}
    ELSE {EmptyMemory}

\* The game states passed to calculate_reward: prev_state is the first,
\* curr_state any of them.
RwStates ==
    {[location |-> "Pallet Town", x |-> 0, y |-> 0, map_id |-> 0, badges |-> 0],
     [location |-> "Pallet Town", x |-> 1, y |-> 0, map_id |-> 0, badges |-> 1]}

RwPrevStates == {s \in RwStates : s.badges = 0}

RwCalculateReward ==
    /\ rw_calls < MaxCalcs
    /\ \E prev_state \in RwPrevStates, curr_state \in RwStates, m \in RwMemories :
           calculate_reward(prev_state, curr_state, m)
    /\ UNCHANGED rwOthers

\* The memories reset can read: it reads the event flags only.
RwResetMemories ==
    IF memory_reader
    THEN {Memory(e, <<1, 5>>, <<20, 20>>, <<0, 9>>) : e \in RwEventBytes}
    ELSE {EmptyMemory}

RwReset ==
    /\ \E m \in RwResetMemories : rw_reset(m)
    /\ UNCHANGED rwOthers

\* calculate_reward and reset as the training loop calls them, audited.
AuditedStep(prev_state, curr_state, m) ==
    /\ calculate_reward(prev_state, curr_state, m)
    /\ rw_audit' = [AuditStep(curr_state, m) EXCEPT !.prev_badges = prev_state.badges]
    /\ UNCHANGED rwRest

AuditedReset(m) ==
    /\ rw_reset(m)
    /\ rw_audit' = AuditReset(m)
    /\ UNCHANGED rwRest

\* A game state at x on the first row of Pallet Town.
Tile(x) == [location |-> "Pallet Town", x |-> x, y |-> 0, map_id |-> 0, badges |-> 0]

\* A walk along a row: every step stays on its tile or moves one tile on.
MaxLoopCalls == 12
LoopTiles == 0..3
LoopGracePeriods == {0, 2}

LoopInit ==
    /\ memory_reader = FALSE
    /\ grace_period \in LoopGracePeriods
    /\ RwFields

LoopNextTiles ==
    IF rw_call.op = "calculate_reward"
    THEN {x \in LoopTiles : x \in {rw_call.curr_state.x, rw_call.curr_state.x + 1}}
    ELSE {0}

LoopStep ==
    /\ rw_calls < MaxLoopCalls
    /\ \E x \in LoopNextTiles : AuditedStep(Tile(0), Tile(x), EmptyMemory)

LoopReset ==
    /\ rw_call.op = "calculate_reward"
    /\ AuditedReset(EmptyMemory)

\* A long stay on one tile, left at most once for the next tile; reset is
\* called during the first calls only.
MaxStuckCalls == 605
MaxAway == 2
MaxCallsBeforeReset == 2
StuckGracePeriods == {0, 602}

StuckInit ==
    /\ memory_reader = FALSE
    /\ grace_period \in StuckGracePeriods
    /\ RwFields

Visits(c) == IF c \in DOMAIN rw_audit.visits THEN rw_audit.visits[c] ELSE 0

StuckNextTiles ==
    IF rw_call.op = "calculate_reward"
    THEN {x \in {rw_call.curr_state.x, 1} : x = 1 => Visits(<<1, 0, 0>>) < MaxAway}
    ELSE {0}

StuckStep ==
    /\ rw_calls < MaxStuckCalls
    /\ \E x \in StuckNextTiles : AuditedStep(Tile(0), Tile(x), EmptyMemory)

StuckReset ==
    /\ rw_call.op = "calculate_reward"
    /\ rw_calls <= MaxCallsBeforeReset
    /\ AuditedReset(EmptyMemory)

\* A party of one or two members of level 5 and 20 maximum HP whose HP
\* changes from step to step, read at one position.
MaxHealthCalls == 5
HealthGracePeriods == {0, 50}
HealthParties == {<<0>>, <<10>>, <<20>>, <<0, 0>>, <<20, 20>>}

HealthMemory(hps) ==
    LET member(i) ==
            (MEMORY_MAP.PARTY_LEVEL[i] :> 5) @@ (MEMORY_MAP.PARTY_HP[i] + 1 :> hps[i]) @@
            (MEMORY_MAP.PARTY_MAX_HP[i] + 1 :> 20)
    IN  (MEMORY_MAP.PARTY_COUNT :> Len(hps)) @@ member(1) @@
        (IF Len(hps) > 1 THEN member(2) ELSE <<>>)

HealthInit ==
    /\ memory_reader = TRUE
    /\ grace_period \in HealthGracePeriods
    /\ RwFields

HealthStep ==
    /\ rw_calls < MaxHealthCalls
    /\ \E hps \in HealthParties : AuditedStep(Tile(0), Tile(0), HealthMemory(hps))

HealthReset ==
    /\ rw_call.op = "calculate_reward"
    /\ AuditedReset(HealthMemory(<<20>>))

\* Story progress: the event bytes 0xD747 and 0xD754 change from step to
\* step under a party of one member of level 5 and full HP.
MaxEventCalls == 3
EventBytes == {<<0, 0>>, <<0, 1>>, <<1, 0>>, <<1, 1>>, <<3, 0>>}

EventMemory(e) == Memory(e, <<1, 5>>, <<20, 20>>, <<0, 9>>)

EventInit ==
    /\ memory_reader = TRUE
    /\ grace_period \in RwGracePeriods
    /\ RwFields

EventStep ==
    /\ rw_calls < MaxEventCalls
    /\ \E e \in EventBytes : AuditedStep(Tile(0), Tile(0), EventMemory(e))

EventReset ==
    /\ rw_call.op # "reset"
    /\ \E e \in EventBytes : AuditedReset(EventMemory(e))

\* Training: the levels of a party of one or two members change from step
\* to step, no event flag set.
MaxLevelCalls == 3
LevelParties == {<<5>>, <<8>>, <<27>>, <<28>>, <<31>>, <<20, 14>>}

LevelMemory(levels) ==
    LET member(i) ==
            (MEMORY_MAP.PARTY_LEVEL[i] :> levels[i]) @@
            (MEMORY_MAP.PARTY_HP[i] + 1 :> 20) @@ (MEMORY_MAP.PARTY_MAX_HP[i] + 1 :> 20)
    IN  (MEMORY_MAP.PARTY_COUNT :> Len(levels)) @@ member(1) @@
        (IF Len(levels) > 1 THEN member(2) ELSE <<>>)

LevelInit ==
    /\ memory_reader = TRUE
    /\ grace_period \in RwGracePeriods
    /\ RwFields

LevelStep ==
    /\ rw_calls < MaxLevelCalls
    /\ \E levels \in LevelParties : AuditedStep(Tile(0), Tile(0), LevelMemory(levels))

LevelReset ==
    /\ rw_call.op = "calculate_reward"
    /\ AuditedReset(LevelMemory(<<5>>))

\* A tour of places: two tiles of Pallet Town, a tile of Route 1 on the
\* same map, a map of the same name whose anchor is that of map 0, and
\* Viridian City.
MaxExploreCalls == 3

Place(location, x, map_id) ==
    [location |-> location, x |-> x, y |-> 0, map_id |-> map_id, badges |-> 0]

ExplorePlaces ==
    {Place("Pallet Town", 0, 0), Place("Pallet Town", 1, 0), Place("Route 1", 2, 0),
     Place("Pallet Town", 0, 51), Place("Viridian City", 0, 1)}

ExploreInit ==
    /\ memory_reader = FALSE
    /\ grace_period \in RwGracePeriods
    /\ RwFields

ExploreStep ==
    /\ rw_calls < MaxExploreCalls
    /\ \E curr_state \in ExplorePlaces :
           AuditedStep(Place("Pallet Town", 0, 0), curr_state, EmptyMemory)

ExploreReset ==
    /\ rw_call.op = "calculate_reward"
    /\ AuditedReset(EmptyMemory)

\* Transitions between badge counts, at two tiles, with and without a
\* memory reader, the memory having no or two event flags set.
MaxBadgeCalls == 2
BadgeCounts == {0, 1, 3, 8}
BadgeMemories == IF memory_reader THEN {EventMemory(<<0, 0>>), EventMemory(<<3, 0>>)} ELSE {EmptyMemory}

Badged(x, badges) == [Tile(x) EXCEPT !.badges = badges]

BadgeInit ==
    /\ memory_reader \in BOOLEAN
    /\ grace_period \in RwGracePeriods
    /\ RwFields

BadgeStep ==
    /\ rw_calls < MaxBadgeCalls
    /\ \E before \in BadgeCounts, after \in BadgeCounts, x \in {0, 1}, m \in BadgeMemories :
           AuditedStep(Badged(0, before), Badged(x, after), m)

BadgeReset ==
    /\ rw_call.op = "calculate_reward"
    /\ \E m \in BadgeMemories : AuditedReset(m)

(***************************************************************************)
(*                     policy.select_action, HeuristicGuide                *)
(***************************************************************************)

\* Text is a sequence of characters.
UpperCase == <<"A", "B", "C", "D", "E", "F", "G", "H", "I", "J", "K", "L", "M", "N", "O", "P", "Q", "R", "S", "T", "U", "V", "W", "X", "Y", "Z">>
LowerCase == <<"a", "b", "c", "d", "e", "f", "g", "h", "i", "j", "k", "l", "m", "n", "o", "p", "q", "r", "s", "t", "u", "v", "w", "x", "y", "z">>

\* str.lower()
Lower(text) ==
    [i \in 1..Len(text) |->
        IF \E k \in 1..Len(UpperCase) : UpperCase[k] = text[i]
        THEN LowerCase[CHOOSE k \in 1..Len(UpperCase) : UpperCase[k] = text[i]]
        ELSE text[i]]

\* needle in text
In(needle, text) ==
    \E i \in 0..(Len(text) - Len(needle)) :
        SubSeq(text, i + 1, i + Len(needle)) = needle

\* The hints of HeuristicGuide.get_hint
HintPallet == <<"T", "r", "y", " ", "g", "o", "i", "n", "g", " ", "U", "P", "/", "N", "O", "R", "T", "H", " ", "t", "o", " ", "l", "e", "a", "v", "e", " ", "P", "a", "l", "l", "e", "t", " ", "T", "o", "w", "n">>
HintRoute1 == <<"C", "o", "n", "t", "i", "n", "u", "e", " ", "N", "O", "R", "T", "H", " ", "t", "o", " ", "V", "i", "r", "i", "d", "i", "a", "n", " ", "C", "i", "t", "y">>
HintViridian == <<"G", "o", " ", "N", "O", "R", "T", "H", " ", "t", "h", "r", "o", "u", "g", "h", " ", "f", "o", "r", "e", "s", "t", " ", "t", "o", " ", "P", "e", "w", "t", "e", "r", " ", "C", "i", "t", "y">>
HintPewter == <<"E", "n", "t", "e", "r", " ", "g", "y", "m", " ", "(", "b", "u", "i", "l", "d", "i", "n", "g", ")", " ", "t", "o", " ", "b", "a", "t", "t", "l", "e", " ", "f", "o", "r", " ", "f", "i", "r", "s", "t", " ", "b", "a", "d", "g", "e">>
NoHint == <<>>

\* The location names of the game states handed to select_action
PalletTown == <<"P", "a", "l", "l", "e", "t", " ", "T", "o", "w", "n">>
Route1 == <<"R", "o", "u", "t", "e", " ", "1">>
ViridianCity == <<"V", "i", "r", "i", "d", "i", "a", "n", " ", "C", "i", "t", "y">>
PewterCity == <<"P", "e", "w", "t", "e", "r", " ", "C", "i", "t", "y">>
CeruleanCity == <<"C", "e", "r", "u", "l", "e", "a", "n", " ", "C", "i", "t", "y">>

\* HeuristicGuide.get_hint
get_hint(state) ==
    LET location == Lower(state.location)
    IN  IF In(<<"p", "a", "l", "l", "e", "t">>, location) /\ state.badges = 0 THEN HintPallet
        ELSE IF In(<<"r", "o", "u", "t", "e", " ", "1">>, location) /\ state.badges = 0 THEN HintRoute1
        ELSE IF In(<<"v", "i", "r", "i", "d", "i", "a", "n">>, location) /\ state.badges = 0 THEN HintViridian
        ELSE IF In(<<"p", "e", "w", "t", "e", "r">>, location) /\ state.badges = 0 THEN HintPewter
        ELSE NoHint

\* action in available_actions
Has(available_actions, action) ==
    \E i \in 1..Len(available_actions) : available_actions[i] = action

NoSuggestion == "None"

\* A faulty guide: the direction of the hint is returned whether or not the
\* caller offered it.
suggest_action_ignores_available(state, available_actions) ==
    LET hint == get_hint(state)
    IN  IF hint = NoHint THEN NoSuggestion
        ELSE IF In(<<"U", "P">>, hint) \/ In(<<"N", "O", "R", "T", "H">>, hint) THEN "UP"
        ELSE IF In(<<"D", "O", "W", "N">>, hint) \/ In(<<"S", "O", "U", "T", "H">>, hint) THEN "DOWN"
        ELSE IF In(<<"L", "E", "F", "T">>, hint) \/ In(<<"W", "E", "S", "T">>, hint) THEN "LEFT"
        ELSE IF In(<<"R", "I", "G", "H", "T">>, hint) \/ In(<<"E", "A", "S", "T">>, hint) THEN "RIGHT"
        ELSE IF In(<<"g", "y", "m">>, hint) \/ In(<<"b", "u", "i", "l", "d", "i", "n", "g">>, hint) \/ In(<<"b", "a", "t", "t", "l", "e">>, hint) THEN "A"
        ELSE NoSuggestion

\* HeuristicGuide.suggest_action (the second definition in the class body,
\* the one in force)
suggest_action(state, available_actions) ==
    LET hint == get_hint(state)
    IN  IF hint = NoHint THEN NoSuggestion
        ELSE IF (In(<<"U", "P">>, hint) \/ In(<<"N", "O", "R", "T", "H">>, hint)) /\ Has(available_actions, "UP") THEN "UP"
        ELSE IF (In(<<"D", "O", "W", "N">>, hint) \/ In(<<"S", "O", "U", "T", "H">>, hint)) /\ Has(available_actions, "DOWN") THEN "DOWN"
        ELSE IF (In(<<"L", "E", "F", "T">>, hint) \/ In(<<"W", "E", "S", "T">>, hint)) /\ Has(available_actions, "LEFT") THEN "LEFT"
        ELSE IF (In(<<"R", "I", "G", "H", "T">>, hint) \/ In(<<"E", "A", "S", "T">>, hint)) /\ Has(available_actions, "RIGHT") THEN "RIGHT"
        ELSE IF (In(<<"g", "y", "m">>, hint) \/ In(<<"b", "u", "i", "l", "d", "i", "n", "g">>, hint) \/ In(<<"b", "a", "t", "t", "l", "e">>, hint)) /\ Has(available_actions, "A") THEN "A"
        ELSE NoSuggestion

\* policy.select_action: what it returns, given the pair the agent returned
policy_returns(state, available_actions, action, is_exploration) ==
    IF is_exploration
    THEN LET heuristic_action == suggest_action(state, available_actions)
         IN  IF heuristic_action # NoSuggestion
             THEN [action |-> heuristic_action, reason |-> "heuristic_guidance"]
             ELSE [action |-> action, reason |-> "exploration"]
    ELSE [action |-> action, reason |-> "exploitation"]

PolicyStates == {[map_id |-> 1, badges |-> b, x |-> 3, location |-> l] : b \in {0, 1}, l \in {PalletTown, PewterCity, CeruleanCity}}
PolicyAvailable == {<<"UP", "DOWN", "LEFT", "RIGHT", "A", "B">>, <<"A", "B">>, <<"DOWN">>}

\* policy.update_q_learning on the agent: terminal updates of one state, which
\* give the agent something to exploit.
MaxPolicyUpdates == 1

PolicyUpdate ==
    /\ total_updates < MaxPolicyUpdates
    /\ \E state \in PolicyStates, reward \in {-1, 1}, i \in 1..Len(QActions) :
           /\ state.badges = 0 /\ state.location = PalletTown
           /\ update(state, QActions[i], reward, state, TRUE)
    /\ UNCHANGED qOthers

\* A policy.select_action call: the agent's select_action, then the guide.
\* bot_trace holds the decision.
PolicySelectAction ==
    /\ \E state \in PolicyStates, available_actions \in PolicyAvailable,
          explores \in BOOLEAN :
           \E i \in 1..Len(available_actions) :
              select_action(state, available_actions, explores,
                            available_actions[i])
    /\ bot_trace' = << [ev |-> "select_action",
                        available_actions |-> q_call'.available_actions]
                       @@ policy_returns(q_call'.state,
                                         q_call'.available_actions,
                                         q_call'.action,
                                         q_call'.is_exploration) >>
    /\ UNCHANGED <<ckVars, emVars, scVars, rwVars, rw_audit, bot>>

(***************************************************************************)
(*                              PokeRushBot                                *)
(***************************************************************************)

\* Bound of the training-loop model: the largest settings.max_steps.
MaxBotSteps == 3

BotModes == {"run", "webui"}       \* run / _run_internal, or run_in_webui
BotStates == {"s1", "s2"}          \* the game states the emulator reports
BotActions == {"UP", "A"}          \* settings.actions
NoAction == "None"                 \* prev_action = None
Unbound == "unbound"               \* a local no statement has assigned yet

\* The loop of run_in_webui reads reward_stats (lines 512-516), a name no
\* statement of that function or of the module binds: the first iteration
\* that gets that far ends the run with a NameError.  The summary after the
\* loop reads total_reward (line 581), unbound in the same way.
WebuiNamesBound == {"self", "stop_flag", "step", "action", "reason", "curr_state", "reward", "reward_dict", "prev_state", "prev_action", "stats"}
RecordStepRaises == "reward_stats" \notin WebuiNamesBound
SummaryRaises == "total_reward" \notin WebuiNamesBound

BotInit ==
    /\ \E mode \in BotModes, max_steps \in 0..MaxBotSteps, s \in BotStates :
           bot = [mode |-> mode, pc |-> "loop", step |-> 0,
                  max_steps |-> max_steps, prev_state |-> s,
                  prev_action |-> NoAction, curr_state |-> Unbound,
                  stop |-> FALSE]
    /\ bot_trace = <<>>

BotIdle ==
    /\ bot = [mode |-> "run", pc |-> "done", step |-> 0, max_steps |-> 0,
              prev_state |-> "s1", prev_action |-> NoAction,
              curr_state |-> Unbound, stop |-> FALSE]
    /\ bot_trace = <<>>

\* The calls of one iteration up to the reward: emulator.step(action),
\* reward_calculator.calculate_reward(prev_state, curr_state, elapsed).
ActAndReward(action, curr_state) ==
    << [ev |-> "emulator_step", step |-> bot.step, action |-> action,
        from |-> bot.prev_state, to |-> curr_state],
       [ev |-> "calculate_reward", step |-> bot.step,
        from |-> bot.prev_state, to |-> curr_state] >>

\* update_q_learning(prev_state, prev_action, reward, curr_state, done),
\* made only when prev_action is not None; reward is the one the
\* calculate_reward call of this iteration returned.
UpdateCall(action, curr_state) ==
    IF bot.prev_action = NoAction THEN <<>>
    ELSE << [ev |-> "update", step |-> bot.step, state |-> bot.prev_state,
             action |-> bot.prev_action, reward_step |-> bot.step,
             next_state |-> curr_state,
             done |-> (bot.step = bot.max_steps - 1)] >>

\* The saves of one iteration of _run_internal: the periodic one when
\* should_checkpoint(step) holds, the best one on a new badge.
LoopSaves(due, badge) ==
    (IF due THEN << [ev |-> "save_checkpoint", step |-> bot.step] >> ELSE <<>>)
    \o (IF badge THEN << [ev |-> "save_best_checkpoint", step |-> bot.step] >>
        ELSE <<>>)

\* One pass through the body of the loop of _run_internal.
RunIteration ==
    /\ bot.mode = "run" /\ bot.pc = "loop" /\ bot.step < bot.max_steps
    /\ \E action \in BotActions, curr_state \in BotStates, due \in BOOLEAN,
          badge \in BOOLEAN :
           /\ bot_trace' = bot_trace \o ActAndReward(action, curr_state)
                               \o UpdateCall(action, curr_state)
                               \o LoopSaves(due, badge)
           /\ bot' = [bot EXCEPT !.step = bot.step + 1,
                                 !.prev_state = curr_state,
                                 !.prev_action = action,
                                 !.curr_state = curr_state]
    /\ UNCHANGED botOthers

\* The code of _run_internal behind the loop: save_q_table(), the final
\* save_checkpoint and, for the best run so far, save_best_checkpoint.  With
\* max_steps = 0 the loop body never ran and building final_stats from
\* curr_state raises after save_q_table().
RunFinish ==
    /\ bot.mode = "run" /\ bot.pc = "loop" /\ bot.step = bot.max_steps
    /\ IF bot.curr_state = Unbound
       THEN /\ bot_trace' = Append(bot_trace,
                   [ev |-> "save_q_table", step |-> bot.max_steps])
            /\ bot' = [bot EXCEPT !.pc = "raised"]
       ELSE /\ \E best \in BOOLEAN :
                   bot_trace' = bot_trace
                       \o << [ev |-> "save_q_table", step |-> bot.max_steps],
                             [ev |-> "save_checkpoint", step |-> bot.max_steps] >>
                       \o (IF best THEN << [ev |-> "save_best_checkpoint",
                                             step |-> bot.max_steps] >>
                           ELSE <<>>)
            /\ bot' = [bot EXCEPT !.pc = "done"]
    /\ UNCHANGED botOthers

\* One pass through the body of the loop of run_in_webui: the poll of
\* stop_flag, then the iteration as far as it gets.
WebuiIteration ==
    /\ bot.mode = "webui" /\ bot.pc = "loop" /\ bot.step < bot.max_steps
    /\ LET poll == << [ev |-> "poll", step |-> bot.step, ret |-> bot.stop] >>
       IN  IF bot.stop
           THEN /\ bot_trace' = bot_trace \o poll
                /\ bot' = [bot EXCEPT !.pc = "after_loop"]
           ELSE \E action \in BotActions, curr_state \in BotStates :
                   IF RecordStepRaises
                   THEN /\ bot_trace' = bot_trace \o poll
                                           \o ActAndReward(action, curr_state)
                        /\ bot' = [bot EXCEPT !.pc = "raised",
                                              !.curr_state = curr_state]
                   ELSE /\ bot_trace' = bot_trace \o poll
                                           \o ActAndReward(action, curr_state)
                                           \o UpdateCall(action, curr_state)
                        /\ bot' = [bot EXCEPT !.step = bot.step + 1,
                                              !.prev_state = curr_state,
                                              !.prev_action = action,
                                              !.curr_state = curr_state]
    /\ UNCHANGED botOthers

\* The loop of run_in_webui has run out of steps.
WebuiExhausted ==
    /\ bot.mode = "webui" /\ bot.pc = "loop" /\ bot.step = bot.max_steps
    /\ bot' = [bot EXCEPT !.pc = "after_loop"]
    /\ UNCHANGED bot_trace
    /\ UNCHANGED botOthers

\* The code of run_in_webui behind the loop: save_q_table(), the session
\* statistics and the summary.
WebuiFinish ==
    /\ bot.mode = "webui" /\ bot.pc = "after_loop"
    /\ bot_trace' = Append(bot_trace,
                           [ev |-> "save_q_table", step |-> bot.step])
    /\ bot' = [bot EXCEPT !.pc = IF SummaryRaises THEN "raised" ELSE "done"]
    /\ UNCHANGED botOthers

\* The web interface asks the run to stop: stop_flag() returns True from
\* now on.
StopRequested ==
    /\ bot.mode = "webui" /\ bot.pc = "loop" /\ ~bot.stop
    /\ bot' = [bot EXCEPT !.stop = TRUE]
    /\ UNCHANGED bot_trace
    /\ UNCHANGED botOthers

(***************************************************************************)
(*                           Specifications                                *)
(***************************************************************************)

\* The components a specification does not exercise stay as constructed.
CkIdle ==
    /\ enabled = TRUE
    /\ keep_best = 1
    /\ save_interval = 1
    /\ last_checkpoint_step = 0
    /\ best_scores = <<>>
    /\ storage = <<>>
    /\ now = 0
    /\ ck_call = [op |-> "init", path |-> NoPath]
    /\ ck_saves = 0

ScIdle ==
    /\ use_knn = TRUE
    /\ knn_index = <<>>
    /\ seen_frame_hashes = {}
    /\ frame_count = 0
    /\ sc_hist = <<>>

QIdle ==
    /\ q_table_path = FALSE
    /\ q_table = <<>>
    /\ total_updates = 0
    /\ states_explored = {}
    /\ q_file = NoFile
    /\ q_at_save = <<>>
    /\ q_call = [op |-> "new"]

RwIdle ==
    /\ memory_reader = FALSE
    /\ grace_period = 50
    /\ RwFields

InitCkpt == CkInit /\ EmInit /\ ScIdle /\ QIdle /\ RwIdle /\ BotIdle
NextCkpt == SaveCheckpoint \/ SaveBestCheckpoint \/ Tick
SpecCkpt == InitCkpt /\ [][NextCkpt]_vars

InitMap == EmInit /\ CkIdle /\ ScIdle /\ QIdle /\ RwIdle /\ BotIdle
NextMap == EmUpdate \/ EmReset
SpecMap == InitMap /\ [][NextMap]_vars

InitScreen == ScInit /\ CkIdle /\ EmInit /\ QIdle /\ RwIdle /\ BotIdle
NextScreen == ScAddFrame \/ ScReset
SpecScreen == InitScreen /\ [][NextScreen]_vars

InitQ == QInit /\ CkIdle /\ EmInit /\ ScIdle /\ RwIdle /\ BotIdle
NextQ == QUpdate \/ QSave \/ QRestart
SpecQ == InitQ /\ [][NextQ]_vars

InitReward == RwInit /\ EmInit /\ ScIdle /\ CkIdle /\ QIdle /\ BotIdle
NextReward == RwCalculateReward \/ RwReset
SpecReward == InitReward /\ [][NextReward]_vars

InitLoop == LoopInit /\ EmInit /\ ScIdle /\ CkIdle /\ QIdle /\ BotIdle
NextLoop == LoopStep \/ LoopReset
SpecLoop == InitLoop /\ [][NextLoop]_vars

InitStuck == StuckInit /\ EmInit /\ ScIdle /\ CkIdle /\ QIdle /\ BotIdle
NextStuck == StuckStep \/ StuckReset
SpecStuck == InitStuck /\ [][NextStuck]_vars

InitHealth == HealthInit /\ EmInit /\ ScIdle /\ CkIdle /\ QIdle /\ BotIdle
NextHealth == HealthStep \/ HealthReset
SpecHealth == InitHealth /\ [][NextHealth]_vars

InitEvent == EventInit /\ EmInit /\ ScIdle /\ CkIdle /\ QIdle /\ BotIdle
NextEvent == EventStep \/ EventReset
SpecEvent == InitEvent /\ [][NextEvent]_vars

InitLevel == LevelInit /\ EmInit /\ ScIdle /\ CkIdle /\ QIdle /\ BotIdle
NextLevel == LevelStep \/ LevelReset
SpecLevel == InitLevel /\ [][NextLevel]_vars

InitExplore == ExploreInit /\ EmInit /\ ScIdle /\ CkIdle /\ QIdle /\ BotIdle
NextExplore == ExploreStep \/ ExploreReset
SpecExplore == InitExplore /\ [][NextExplore]_vars

InitBadge == BadgeInit /\ EmInit /\ ScIdle /\ CkIdle /\ QIdle /\ BotIdle
NextBadge == BadgeStep \/ BadgeReset
SpecBadge == InitBadge /\ [][NextBadge]_vars

NextFar == EmUpdateFar \/ EmReset
SpecFar == InitMap /\ [][NextFar]_vars

NextCount == EmUpdateCount \/ EmResetCount
SpecCount == InitMap /\ [][NextCount]_vars

NextScreenReset == ScAddFrame \/ ScReset \/ ScResetInitFails
SpecScreenReset == InitScreen /\ [][NextScreenReset]_vars

NextSelect == QUpdate \/ QSelectAction
SpecSelect == InitQ /\ [][NextSelect]_vars

NextLoad == QLiveUpdate \/ QLiveSave \/ QCorrupt \/ QRestart
SpecLoad == InitQ /\ [][NextLoad]_vars

NextRun == QRunUpdate \/ QRestart
SpecRun == InitQ /\ [][NextRun]_vars

NextRmFails == SaveCheckpoint \/ SaveCheckpointRmFails \/ SaveBestCheckpointRmFails
SpecRmFails == InitCkpt /\ [][NextRmFails]_vars

NextInterval == SaveCheckpoint \/ SaveBestCheckpoint \/ ShouldCheckpoint
SpecInterval == InitCkpt /\ [][NextInterval]_vars

NextBundle == SaveCheckpoint \/ SaveBestCheckpoint \/ LoopSaveCheckpoint \/ Tick
SpecBundle == InitCkpt /\ [][NextBundle]_vars

NextPolicy == PolicyUpdate \/ PolicySelectAction
SpecPolicy == InitQ /\ [][NextPolicy]_vars

InitBot == BotInit /\ CkIdle /\ EmInit /\ ScIdle /\ QIdle /\ RwIdle
NextBot == RunIteration \/ RunFinish \/ WebuiIteration \/ WebuiExhausted \/ WebuiFinish \/ StopRequested
SpecBot == InitBot /\ [][NextBot]_vars

(***************************************************************************)
(*                               Claims                                    *)
(***************************************************************************)

\* A checkpoint is protected as best when its name starts with best_ or its
\* metadata says is_best.
ProtectedAsBest(path) ==
    StartsWithBest(path) \/ storage[path].metadata.is_best

Unprotected == {p \in DOMAIN storage : ~ProtectedAsBest(p)}

\* C1: after any sequence of save_checkpoint / save_best_checkpoint calls
\* with any scores, at most keep_best checkpoints that are not protected as
\* best exist in storage.
C1_AtMostKUnprotected == Cardinality(Unprotected) <= keep_best

\* C2: a checkpoint saved with is_best=True is never deleted by the
\* retention cleanup of a later save: a checkpoint whose metadata says
\* is_best is still in storage after every save that writes to another name.
C2_BestNeverDeleted ==
    [][\A p \in DOMAIN storage :
          (storage[p].metadata.is_best /\ ck_call'.path # p)
              => p \in DOMAIN storage']_vars

\* The number of add_frame calls before call k (since the last reset) that
\* returned True.
NovelBefore(k) == Cardinality({j \in 1..(k - 1) : sc_hist[j].ret})

\* The nearest-neighbour index had room when call k was made.
RoomBefore(k) == use_knn => NovelBefore(k) < max_elements

\* C7: on a fresh (constructed or reset) explorer the first add_frame
\* returns True, and an add_frame with the frame of the call before it
\* returns False when that earlier call found the index below capacity; so N
\* calls in a row with one frame return True once and then False.
C7_RepeatedFrame ==
    /\ sc_hist # <<>> => sc_hist[1].ret
    /\ \A i \in 2..Len(sc_hist) :
          (sc_hist[i].frame = sc_hist[i - 1].frame /\ RoomBefore(i - 1))
              => ~sc_hist[i].ret

C7_Witness ==
    /\ Len(sc_hist) >= 3
    /\ sc_hist[2].frame = sc_hist[1].frame
    /\ sc_hist[3].frame = sc_hist[1].frame
    /\ sc_hist[1].ret /\ ~sc_hist[2].ret /\ ~sc_hist[3].ret

\* C8: in nearest-neighbour mode add_frame returns True iff nothing is
\* stored or the squared distance to the nearest stored frame is strictly
\* greater than the threshold, at capacity or not.
C8_NoveltyRule ==
    [][(use_knn /\ Len(sc_hist') = Len(sc_hist) + 1) =>
          LET call == sc_hist'[Len(sc_hist')]
          IN  call.ret = (\/ knn_index = <<>>
                          \/ NearestDist(knn_index, call.frame)
                                 > similarity_threshold)]_vars

\* C9: once frame_count has reached max_elements, add_frame stores nothing
\* and leaves the unique-frame counter unchanged.
C9_ReadOnlyAtCapacity ==
    [][(frame_count >= max_elements /\ Len(sc_hist') = Len(sc_hist) + 1) =>
          /\ knn_index' = knn_index
          /\ seen_frame_hashes' = seen_frame_hashes
          /\ frame_count' = frame_count]_vars

\* The cell an update call of the history targets.
CellOf(h) == local_to_global(h.x, h.y, h.map_id)

\* C10: update returns True exactly when no earlier call since the last
\* reset targeted the same cell, and the grid holds exactly the targeted
\* cells (a call that returns False adds nothing).
C10_FirstVisitOnly ==
    /\ \A i \in 1..Len(em_hist) :
          em_hist[i].ret =
              (\A j \in 1..(i - 1) : CellOf(em_hist[j]) # CellOf(em_hist[i]))
    /\ explore_map = {CellOf(em_hist[i]) : i \in 1..Len(em_hist)}

\* A first visit, a repeat with the same arguments, and another coordinate
\* clamped onto the same cell.
C10_Witness ==
    /\ Len(em_hist) = 3
    /\ em_hist[1].ret
    /\ <<em_hist[2].x, em_hist[2].y, em_hist[2].map_id>>
         = <<em_hist[1].x, em_hist[1].y, em_hist[1].map_id>>
    /\ ~em_hist[2].ret
    /\ em_hist[3].map_id = em_hist[1].map_id
    /\ em_hist[3].y # em_hist[1].y
    /\ CellOf(em_hist[3]) = CellOf(em_hist[1])
    /\ ~em_hist[3].ret
    /\ explore_map = {CellOf(em_hist[1])}

\* The (state key, action, value) entries of a value table.
Entries(table) ==
    UNION {{<<st, a, table[st][a]>> : a \in DOMAIN table[st]} : st \in DOMAIN table}

\* C5: a fresh agent that loads the saved file holds exactly the (state key,
\* action, value) entries the saving agent held when it saved.
C5_RoundTrip ==
    [][(q_call'.op = "init" /\ q_table_path /\ q_file.exists) =>
          Entries(q_table') = Entries(q_at_save)]_vars

\* A loaded table with a non-zero value, from a file that also listed a state
\* with no recorded action.
C5_Witness ==
    /\ q_call.op = "init"
    /\ q_file.exists
    /\ \E e \in Entries(q_table) : e[3] # Zero
    /\ \E st \in DOMAIN q_file.q_table : DOMAIN q_file.q_table[st] = {}
    /\ Entries(q_table) = Entries(q_at_save)

\* The value recorded for (key, action) before a call, 0 if none.
RecordedValue(table, key, action) ==
    IF key \in DOMAIN table /\ action \in DOMAIN table[key]
    THEN table[key][action] ELSE Zero

\* The maximum value recorded for key before a call, 0 if none.
RecordedMax(table, key) ==
    IF key \in DOMAIN table /\ DOMAIN table[key] # {}
    THEN RatMaxOf(Values(table[key])) ELSE Zero

\* C6: update sets value(state, action) to
\* old + alpha * (reward + gamma * best_next - old), best_next being 0 when
\* terminal and otherwise the maximum recorded value of next_state's key.
C6_TDRule ==
    [][q_call'.op = "update" =>
          LET c == q_call'
              key == get_state_key(c.state)
              old == RecordedValue(q_table, key, c.action)
              best_next == IF c.done THEN Zero
                           ELSE RecordedMax(q_table, get_state_key(c.next_state))
          IN  q_table'[key][c.action] =
                  RatAdd(old, RatMul(alpha,
                      RatSub(RatAdd(RatOfInt(c.reward), RatMul(gamma, best_next)),
                             old)))]_vars

\* C3: across a calculate_reward call the four trackers never decrease,
\* whatever the memory holds, and the event, level, opponent and explore
\* components it returns are not negative.
C3_TrackersMonotonic ==
    [][rw_calls' = rw_calls + 1 =>
          /\ max_event_flags' >= max_event_flags
          /\ RatLE(max_level_sum, max_level_sum')
          /\ max_opponent_level' >= max_opponent_level
          /\ max_explored_tiles' >= max_explored_tiles
          /\ \A t \in Trackers : RatLE(Zero, rewards'[t])]_vars

\* A call that read a memory whose event, level and opponent metrics all lie
\* below the maxima reached earlier in the episode.
C3_Witness ==
    /\ rw_call.op = "calculate_reward"
    /\ EventsThisEpisode(mem, base_event_flags) < max_event_flags
    /\ RatLT(ScaledLevelSum(mem), max_level_sum)
    /\ MaxOppLevel(mem) < max_opponent_level
    /\ max_explored_tiles > 0
    /\ \A t \in Trackers \ {"explore"} : rewards[t] = Zero

\* The scale factor of each tracker's reward.
TrackerScale ==
    [event |-> RatOfInt(4), level |-> RatOfInt(1), opponent |-> Rat(1, 2),
     explore |-> Rat(1, 10)]

\* The metric of tracker t as the last call observed it, times the scale.
ScaledMetric(t) ==
    RatMul(TrackerScale[t],
           TrackerMetrics(mem, base_event_flags, explore_map)[t])

\* C4 as stated: after reset, the first call in which a tracker's metric is
\* non-zero returns, as that tracker's component, the scale factor times the
\* metric.
C4_FirstObservationFromZero ==
    (rw_call.op = "calculate_reward" /\ rw_premax.valid) =>
        \A t \in rw_first : rewards[t] = ScaledMetric(t)

\* C4 as amended: the event, level and opponent components are the scale
\* factor times the metric; the explore component is that plus the 5.0 bonus
\* of a new location, which the same call pays.
C4_FirstObservationAmended ==
    (rw_call.op = "calculate_reward" /\ rw_premax.valid) =>
        /\ \A t \in rw_first \ {"explore"} : rewards[t] = ScaledMetric(t)
        /\ "explore" \in rw_first =>
               rewards.explore = RatAdd(ScaledMetric("explore"), RatOfInt(5))

\* A call after a reset that found all four trackers raised, and in which all
\* four metrics are non-zero for the first time since.
C4_Witness ==
    /\ rw_call.op = "calculate_reward"
    /\ rw_premax.valid
    /\ rw_premax.raised = Trackers
    /\ rw_first = Trackers
    /\ rewards.event = ScaledMetric("event")

\* The distinct positions of a sequence of coordinates.
Distinct(h) == Cardinality({h[i] : i \in DOMAIN h})

\* C11: on every calculate_reward step outside the grace period the loop
\* component is -1.0 if the 10 most recently visited coordinates of the
\* episode hold 3 or fewer distinct positions, and 0.0 otherwise.
C11_LoopOverVisited ==
    (rw_call.op = "calculate_reward" /\ step_count > grace_period)
        => (rewards.loop = IF Len(rw_audit.trail) = max_history
                              /\ Distinct(rw_audit.trail) <= 3
                           THEN RatOfInt(-1) ELSE Zero)

\* C12: no loop penalty is emitted on a step before the 10th entry has been
\* appended to the position history, and the step that appends the 10th
\* entry to a history holding only 2 distinct positions has loop = -1.0.
C12_TenthEntry ==
    [][rw_call'.op = "calculate_reward"
          => /\ Len(position_history') < max_history => rewards'.loop = Zero
             /\ (/\ Len(position_history) = max_history - 1
                 /\ Len(position_history') = max_history
                 /\ Distinct(position_history') = 2)
                    => rewards'.loop = RatOfInt(-1)]_vars

C12_Witness ==
    /\ rw_call.op = "calculate_reward"
    /\ step_count = grace_period + max_history
    /\ Len(position_history) = max_history
    /\ Distinct(position_history) = 2
    /\ rewards.loop = RatOfInt(-1)

\* The coordinate of the last calculate_reward call.
Here == <<rw_call.curr_state.x, rw_call.curr_state.y, rw_call.curr_state.map_id>>

\* The stuck rule: the coordinate of the step was visited more than 600
\* times in the episode, this step counted.
StuckRule == IF Visits(Here) > 600 THEN Rat(-5, 100) ELSE Zero

\* The loop rule: 10 or more steps were made outside the grace period, and
\* the last 10 were on 3 or fewer distinct positions.
LoopRule ==
    IF step_count - grace_period >= max_history /\ Distinct(rw_audit.trail) <= 3
    THEN RatOfInt(-1) ELSE Zero

SomeOverThreshold == \E c \in DOMAIN rw_audit.visits : rw_audit.visits[c] > 600

\* C14: once some coordinate's visit count of the episode has exceeded 600,
\* every calculate_reward step outside the grace period has stuck = -0.05;
\* while no count has exceeded it, stuck = 0.
C14_StuckOnceExceeded ==
    rw_call.op = "calculate_reward"
        => /\ (SomeOverThreshold /\ step_count > grace_period)
                  => rewards.stuck = Rat(-5, 100)
           /\ ~SomeOverThreshold => rewards.stuck = Zero

\* C14, amended: a calculate_reward step outside the grace period has
\* stuck = -0.05 exactly when the coordinate of that step has been visited
\* more than 600 times in the episode, the step itself counted, and
\* stuck = 0 otherwise, whatever the counts of the other coordinates are.
C14_StuckAtCurrent ==
    (rw_call.op = "calculate_reward" /\ step_count > grace_period)
        => (rewards.stuck = Rat(-5, 100)) = (Visits(Here) > 600)
               /\ rewards.stuck \in {Rat(-5, 100), Zero}

C14_Witness ==
    /\ rw_call.op = "calculate_reward"
    /\ step_count > grace_period
    /\ SomeOverThreshold
    /\ Visits(Here) <= 600
    /\ rewards.stuck = Zero

\* C15: on every calculate_reward step, in the grace period too, the death
\* component is -0.1 times the revives detected since the last reset, one
\* detected on this step counted; from one step to the next of an episode
\* the penalty never shrinks.
C15_DeathPenalty ==
    [][rw_call'.op = "calculate_reward"
          => /\ rewards'.death = RatMul(Rat(-1, 10), RatOfInt(rw_audit'.revives))
             /\ rw_call.op = "calculate_reward"
                    => RatLE(rewards'.death, rewards.death)]_vars

C15_Witness ==
    /\ rw_call.op = "calculate_reward"
    /\ step_count <= grace_period
    /\ rw_audit.revives = 2
    /\ get_hp_fraction(mem) = Zero
    /\ rewards.death = Rat(-2, 10)

\* The HP fraction and the party size the call before this step read, and
\* whether there was such a call in the episode.
PreviousStep == rw_call.op = "calculate_reward"
HpBefore == get_hp_fraction(mem)
HpNow == get_hp_fraction(mem')
SamePartySize ==
    read_memory(mem', MEMORY_MAP.PARTY_COUNT) = read_memory(mem, MEMORY_MAP.PARTY_COUNT)

\* C16: the heal component is 10 times the rise of the HP fraction on a
\* step where the fraction is higher than at the end of the previous step,
\* the party size is that of the previous step and the previous fraction
\* was above zero; on every other step heal = 0.
C16_HealRule ==
    [][rw_call'.op = "calculate_reward"
          => rewards'.heal =
                IF /\ PreviousStep
                   /\ RatLT(HpBefore, HpNow)
                   /\ SamePartySize
                   /\ RatLT(Zero, HpBefore)
                THEN RatMul(RatOfInt(10), RatSub(HpNow, HpBefore))
                ELSE Zero]_vars

C16_Witness ==
    /\ rw_call.op = "calculate_reward"
    /\ step_count >= 2
    /\ rewards.heal = RatOfInt(5)
    /\ last_health = RatOfInt(1)

\* The step is a revive: the previous HP fraction was zero, the fraction is
\* above zero now and the party size is that of the previous step.
Revive == PreviousStep /\ HpBefore = Zero /\ RatLT(Zero, HpNow) /\ SamePartySize

\* C17: died_count grows by exactly 1 on a revive step, whose heal is 0;
\* every other step leaves it unchanged, and reset sets it to 0.
C17_DiedCount ==
    [][/\ rw_call'.op = "calculate_reward"
          => /\ died_count' = died_count + (IF Revive THEN 1 ELSE 0)
             /\ Revive => rewards'.heal = Zero
       /\ rw_call'.op = "reset" => died_count' = 0]_vars

C17_Witness ==
    /\ rw_call.op = "calculate_reward"
    /\ step_count = 2
    /\ died_count = 1
    /\ rewards.heal = Zero
    /\ RatLT(Zero, last_health)

\* C18: in an episode started by reset, the event reward paid so far is 4.0
\* times the maximum over the steps so far of max(0, c - c0), c the set
\* event flags without the museum ticket's and c0 that number when the
\* episode started.
C18_EventReward ==
    (rw_call.op = "calculate_reward" /\ rw_premax.valid)
        => rw_audit.paid_event = RatMul(RatOfInt(4), RatOfInt(rw_audit.cmax))

\* The scaling of the effective level sum: 1:1 below 22, a quarter above.
LevelScale(sum) == IF sum < 22 THEN RatOfInt(sum) ELSE RatAdd(RatOfInt(22), Rat(sum - 22, 4))

\* C19: the level reward paid so far in the episode is f(S), S the highest
\* effective level sum observed so far, f(s) = s below 22 and
\* f(s) = 22 + (s - 22) / 4 from 22 on.
C19_LevelReward ==
    rw_call.op = "calculate_reward"
        => rw_audit.paid_level = LevelScale(rw_audit.smax)

\* A step crossing the threshold: from 2 to 26, paid 20 + 4 / 4.
C19_Witness ==
    /\ rw_call.op = "calculate_reward"
    /\ rw_audit.smax = 26
    /\ rewards.level = RatOfInt(21)
    /\ rw_audit.paid_level = RatOfInt(23)

\* The grid cells of the coordinates visited in the episode before the step.
CellsVisited == {local_to_global(c[1], c[2], c[3]) : c \in DOMAIN rw_audit.visits}

\* C20: on every step the explore component is 0.1 if the grid cell of the
\* position was not visited in the episode before the step, plus 5.0 if
\* the (location, map id) pair was not seen in the episode before the step;
\* an episode pays the bonus of a pair once, and reset makes it available
\* again.
C20_ExploreRule ==
    [][rw_call'.op = "calculate_reward"
          => LET curr == rw_call'.curr_state
             IN  rewards'.explore =
                    RatAdd(IF local_to_global(curr.x, curr.y, curr.map_id) \in CellsVisited
                           THEN Zero ELSE Rat(1, 10),
                           IF <<curr.location, curr.map_id>> \in rw_audit.pairs
                           THEN Zero ELSE RatOfInt(5))]_vars

\* After a reset, a step on a cell visited in the episode at a pair new to it.
C20_Witness ==
    /\ rw_call.op = "calculate_reward"
    /\ rw_premax.valid
    /\ step_count >= 2
    /\ rewards.explore = RatOfInt(5)

\* C21: a transition with more badges after than before has badge = 10
\* times the badges gained, and any other transition has badge = 0,
\* whatever the position, the memory and the calls before it were.
C21_BadgeReward ==
    rw_call.op = "calculate_reward"
        => rewards.badge =
              IF rw_call.curr_state.badges > rw_audit.prev_badges
              THEN RatOfInt(10 * (rw_call.curr_state.badges - rw_audit.prev_badges))
              ELSE Zero

\* Two badges gained on top of one, on a step that also pays for events.
C21_Witness ==
    /\ rw_call.op = "calculate_reward"
    /\ rw_audit.prev_badges = 1
    /\ rw_call.curr_state.badges = 3
    /\ rewards.badge = RatOfInt(20)
    /\ rewards.event # Zero

\* The anchor of a map: its own when it has one, (80, 0) otherwise.
AnchorOf(map_id) ==
    IF map_id \in DOMAIN MAP_COORDINATES THEN MAP_COORDINATES[map_id] ELSE <<80, 0>>

\* A number brought to the nearest of 0..383.
Nearest(n) == IF n < 0 THEN 0 ELSE IF n > 383 THEN 383 ELSE n

\* C22: local_to_global returns, for every x, y and map id, a cell with
\* row and column in 0..383: the unclamped row 384 - (anchor_y - y + 200)
\* and column anchor_x + x + 200 brought to the nearest bound, an unknown
\* map taking the default anchor; equal arguments give equal cells.
C22_CellInGrid ==
    /\ \A i \in DOMAIN em_hist :
          /\ em_hist[i].cell[1] \in 0..383 /\ em_hist[i].cell[2] \in 0..383
          /\ em_hist[i].cell[1]
                = Nearest(384 - (AnchorOf(em_hist[i].map_id)[1] - em_hist[i].y + 200))
          /\ em_hist[i].cell[2]
                = Nearest(AnchorOf(em_hist[i].map_id)[2] + em_hist[i].x + 200)
    /\ \A i, j \in DOMAIN em_hist :
          (/\ em_hist[i].x = em_hist[j].x /\ em_hist[i].y = em_hist[j].y
           /\ em_hist[i].map_id = em_hist[j].map_id)
              => em_hist[i].cell = em_hist[j].cell
    /\ explore_map \subseteq (0..383) \X (0..383)

\* A call on the unknown map clamped to the last row and the first column,
\* and another clamped to the first row and the last column.
C22_Witness ==
    /\ \E i \in DOMAIN em_hist :
          em_hist[i].map_id = 255 /\ em_hist[i].cell = <<383, 0>>
    /\ \E i \in DOMAIN em_hist : em_hist[i].cell = <<0, 383>>

\* The calls of the history after its last reset before call k, up to k.
SinceReset(k) ==
    {i \in 1..k : em_hist[i].op = "update"
                    /\ \A j \in i..k : em_hist[j].op # "reset"}

\* C23: get_explored_count is at any time the number of distinct cells
\* update marked since the last reset; right after reset it is 0, and the
\* first update after it returns True on any coordinate.
C23_ExploredCount ==
    /\ \A k \in DOMAIN em_hist :
          em_hist[k].count = Cardinality({CellOf(em_hist[i]) : i \in SinceReset(k)})
    /\ \A k \in DOMAIN em_hist :
          em_hist[k].op = "reset"
              => /\ em_hist[k].count = 0
                 /\ k + 1 \in DOMAIN em_hist /\ em_hist[k + 1].op = "update"
                        => em_hist[k + 1].ret
    /\ em_hist # <<>> => get_explored_count(explore_map) = em_hist[Len(em_hist)].count

\* A coordinate marked, a reset, and the same coordinate marked again.
C23_Witness ==
    /\ Len(em_hist) = 3
    /\ em_hist[1].op = "update" /\ em_hist[2].op = "reset" /\ em_hist[3].op = "update"
    /\ CellOf(em_hist[3]) = CellOf(em_hist[1])
    /\ em_hist[3].ret /\ em_hist[3].count = 1

\* C24: after reset, in either mode, the unique-frame counter is 0, and
\* the first add_frame after it returns True whatever was stored before.
C24_ResetForgets ==
    [][/\ (sc_hist # <<>> /\ sc_hist' = <<>>) => frame_count' = 0
       /\ (sc_hist = <<>> /\ sc_hist' # <<>>) => sc_hist'[1].ret]_vars

\* The values recorded for the state of the last select_action call.
SelectedRow ==
    IF get_state_key(q_call.state) \in DOMAIN q_table
    THEN q_table[get_state_key(q_call.state)] ELSE <<>>

\* The value select_action compares an action by: the recorded one, and
\* 0.0 for an action with none.
ComparedValue(a) == IF a \in DOMAIN SelectedRow THEN SelectedRow[a] ELSE Zero

\* With no recorded value for the state, the action is one of the
\* available ones and is reported as exploration.
RandomWhenUnknown ==
    DOMAIN SelectedRow = {}
        => /\ q_call.is_exploration
           /\ \E k \in DOMAIN q_call.available_actions :
                 q_call.available_actions[k] = q_call.action

\* C25: an action returned with was_exploration = False has the highest
\* recorded value of the state among the available actions, and is the
\* first such action in the order of available_actions; a state with no
\* recorded values gets a random available action, was_exploration = True.
C25_GreedyAmongRecorded ==
    q_call.op = "select_action"
        => /\ ~q_call.is_exploration
                 => /\ q_call.action \in DOMAIN SelectedRow
                    /\ \E k \in DOMAIN q_call.available_actions :
                          /\ q_call.available_actions[k] = q_call.action
                          /\ \A j \in DOMAIN q_call.available_actions :
                                q_call.available_actions[j] \in DOMAIN SelectedRow
                                   => RatLE(SelectedRow[q_call.available_actions[j]],
                                            SelectedRow[q_call.action])
                          /\ \A j \in 1..(k - 1) :
                                q_call.available_actions[j] \in DOMAIN SelectedRow
                                   => RatLT(SelectedRow[q_call.available_actions[j]],
                                            SelectedRow[q_call.action])
           /\ RandomWhenUnknown

\* C25, amended: an available action with no recorded value is compared as
\* 0.0.  An action returned with was_exploration = False has the highest
\* such value among the available actions and is the first of them in the
\* order of available_actions, so it may be an action with no recorded
\* value; a state with no recorded values gets a random available action,
\* was_exploration = True.
C25_GreedyWithDefault ==
    q_call.op = "select_action"
        => /\ ~q_call.is_exploration
                 => \E k \in DOMAIN q_call.available_actions :
                       /\ q_call.available_actions[k] = q_call.action
                       /\ \A j \in DOMAIN q_call.available_actions :
                             RatLE(ComparedValue(q_call.available_actions[j]),
                                   ComparedValue(q_call.action))
                       /\ \A j \in 1..(k - 1) :
                             RatLT(ComparedValue(q_call.available_actions[j]),
                                   ComparedValue(q_call.action))
           /\ RandomWhenUnknown

\* An action with no recorded value is returned as the best one, the
\* recorded value of the other available action being negative.
C25_Witness ==
    /\ q_call.op = "select_action"
    /\ ~q_call.is_exploration
    /\ q_call.action \notin DOMAIN SelectedRow
    /\ \E k \in DOMAIN q_call.available_actions :
          /\ q_call.available_actions[k] \in DOMAIN SelectedRow
          /\ RatLT(SelectedRow[q_call.available_actions[k]], Zero)

\* C26: after save_q_table and a load into a new agent, the update count
\* and the distinct-state count of the loaded agent are the ones the
\* document holds, and so are its learning rate and discount.
C26_CountersRoundTrip ==
    (q_call.op = "init" /\ q_table_path /\ q_file.exists)
        => /\ total_updates = q_file.total_updates
           /\ Cardinality(states_explored) = q_file.states_explored
           /\ alpha = q_file.alpha /\ gamma = q_file.gamma

\* C27: constructing an agent on a path with no file gives an empty table
\* and no error; on a path with a malformed file, unparsable or without a
\* well-formed table, the load raises, and the agent never starts with an
\* empty table as if there had been no file.
C27_CorruptFileFails ==
    /\ (q_call.op \in {"init", "init_raised"} /\ q_table_path /\ ~q_file.exists)
          => q_call.op = "init" /\ q_table = <<>>
    /\ (q_call.op \in {"init", "init_raised"} /\ q_table_path /\ Malformed(q_file))
          => q_call.op = "init_raised"

\* The update count of the persisted document, 0 with no document.
PersistedUpdates(file) == IF file.exists THEN file.total_updates ELSE 0

\* C28: with a table path, an update that brings the update count to a
\* multiple of 100 leaves a persisted document holding the in-memory table
\* and update count, and the persisted count is never 100 or more behind
\* the in-memory one.
C28_AutoSave ==
    [][(q_call'.op = "update" /\ q_table_path)
          => /\ total_updates' % 100 = 0
                   => /\ q_file'.exists
                      /\ q_file'.q_table = q_table'
                      /\ q_file'.total_updates = total_updates'
             /\ total_updates' - PersistedUpdates(q_file') < 100]_vars

\* The second automatic save of a run.
C28_Witness ==
    /\ q_table_path
    /\ q_call.op = "update"
    /\ total_updates = 200
    /\ q_file.exists /\ q_file.total_updates = 200
    /\ q_file.q_table = q_table /\ DOMAIN q_table # {}

\* C29: every save on an enabled store, the training loop's included,
\* leaves a checkpoint holding the copy of the value table, the stats
\* document and the metadata document.
C29_FullBundle ==
    (enabled /\ ck_call.op \in {"save_checkpoint", "save_best_checkpoint"})
        => /\ ck_call.path \in DOMAIN storage
           /\ {"q_table.pkl", "stats.json", "metadata.json"}
                  \subseteq storage[ck_call.path].files

\* C30: a save never writes to the location of a checkpoint that an
\* earlier save left in the store, also when both carry the same step and
\* episode and fall in the same wall-clock second.
C30_DistinctLocations ==
    [][(enabled /\ ck_saves' = ck_saves + 1)
          => ck_call'.path \notin DOMAIN storage]_vars

\* The step of the last save call (0 before any save).
LastSaveStep == IF ck_call.path = NoPath THEN 0 ELSE ck_call.path.step

\* C31: should_checkpoint(s) returns True exactly when the store is enabled
\* and s minus the step of the last save is at least save_interval, and it
\* changes no state of the store.
C31_FixedInterval ==
    [][ck_call'.op = "should_checkpoint"
          => /\ ck_call'.ret = (enabled /\ ck_call'.step - LastSaveStep >= save_interval)
             /\ UNCHANGED <<enabled, keep_best, save_interval,
                            last_checkpoint_step, best_scores, storage>>]_vars

\* The last call was a save whose cleanup met a failing removal.
RemovalFailed == "rm_failed" \in DOMAIN ck_call

\* C32: when the removal of an evicted checkpoint fails during the cleanup
\* of a save, the save still returns normally, the checkpoint it wrote is in
\* storage and the best-scores list holds at most keep_best entries.
C32_RemovalErrorCaught ==
    RemovalFailed
        => /\ ck_call.op \in {"save_checkpoint", "save_best_checkpoint"}
           /\ ck_call.path \in DOMAIN storage
           /\ Len(best_scores) <= keep_best

\* A save has returned after the removal of another, older checkpoint failed.
C32_Witness ==
    /\ RemovalFailed
    /\ Cardinality(DOMAIN storage) >= 2
    /\ Len(best_scores) = keep_best

\* The run has ended, by returning or by an exception.
Terminated == bot.pc \in {"done", "raised"}

\* The positions of the trace at which the poll reported stop.
StopPolls == {i \in 1..Len(bot_trace) :
                 bot_trace[i].ev = "poll" /\ bot_trace[i].ret}

\* C33: the stop signal is polled at the head of each iteration; once a
\* poll reports stop the loop makes no further emulator step, reward
\* calculation or value update, and a run that has ended after such a poll
\* has written the value table and saved a final checkpoint after it.
C33_StopFlushes ==
    /\ \A j \in 1..Len(bot_trace) :
          (bot.mode = "webui" /\ bot_trace[j].ev = "emulator_step")
              => /\ j > 1
                 /\ bot_trace[j - 1].ev = "poll"
                 /\ bot_trace[j - 1].step = bot_trace[j].step
    /\ \A i \in StopPolls :
          /\ \A j \in (i + 1)..Len(bot_trace) :
                bot_trace[j].ev \notin {"emulator_step", "calculate_reward", "update"}
          /\ Terminated =>
                /\ \E j \in (i + 1)..Len(bot_trace) : bot_trace[j].ev = "save_q_table"
                /\ \E j \in (i + 1)..Len(bot_trace) : bot_trace[j].ev = "save_checkpoint"

\* C35: every value update of the training loop carries the action that
\* emulator.step executed for the transition it is about, between the same
\* two states, and the reward calculated for that transition.
C35_UpdateMatchesTransition ==
    \A i \in 1..Len(bot_trace) :
        bot_trace[i].ev = "update"
            => \E j \in 1..Len(bot_trace) :
                  /\ bot_trace[j].ev = "emulator_step"
                  /\ bot_trace[j].step = bot_trace[i].reward_step
                  /\ bot_trace[j].from = bot_trace[i].state
                  /\ bot_trace[j].to = bot_trace[i].next_state
                  /\ bot_trace[j].action = bot_trace[i].action

\* The decision of the last policy.select_action call, if there was one.
Decided == bot_trace # <<>> /\ bot_trace[1].ev = "select_action"

C36_SaveSurvivesCleanup ==
    (enabled /\ ck_call.op = "save_checkpoint") => Exists(storage, ck_call.path)

\* C37: get_unique_frame_count() equals the number of add_frame calls that
\* returned True since the last reset or the construction, in both modes
\* and at capacity.
C37_CountsNovelFrames ==
    frame_count = Cardinality({i \in 1..Len(sc_hist) : sc_hist[i].ret})

\* The value a non-terminal update stores when best_next is its
\* best-next-value.
Learned(old, reward, best_next) ==
    RatAdd(old, RatMul(alpha,
        RatSub(RatAdd(RatOfInt(reward), RatMul(gamma, best_next)), old)))

\* C38: in a non-terminal update the best-next-value is the maximum of the
\* values recorded for next_state's key before the call (0 if there were
\* none), also when state and next_state share a key and the updated
\* action had no recorded value: the stored value is the one learned from
\* that maximum.
C38_BestNextBeforeCall ==
    [][(q_call'.op = "update" /\ ~q_call'.done) =>
          LET key == get_state_key(q_call'.state)
              next_key == get_state_key(q_call'.next_state)
          IN  q_table'[key][q_call'.action] =
                  Learned(RecordedValue(q_table, key, q_call'.action),
                          q_call'.reward, RecordedMax(q_table, next_key))]_vars

\* C39: after every save the best-scores list is sorted by descending score,
\* holds at most keep_best entries and lists only checkpoints that exist in
\* storage, and get_best_checkpoint() returns a path listed with the highest
\* score.
C39_BestListSound ==
    /\ \A i \in 1..(Len(best_scores) - 1) :
          best_scores[i].score >= best_scores[i + 1].score
    /\ Len(best_scores) <= keep_best
    /\ \A i \in 1..Len(best_scores) : Exists(storage, best_scores[i].path)
    /\ best_scores # <<>> =>
          \E i \in 1..Len(best_scores) :
             /\ best_scores[i].path = get_best_checkpoint
             /\ \A j \in 1..Len(best_scores) :
                   best_scores[j].score <= best_scores[i].score

\* C40: after every calculate_reward call max_explored_tiles equals the
\* explored-cell count of the exploration grid, each coordinate's counter
\* is the number of calls made at it since the last reset (grace-period
\* steps included), and the counters sum to the number of those calls.
C40_TilesAndVisits ==
    rw_call.op = "calculate_reward"
        => /\ max_explored_tiles = get_explored_count(explore_map)
           /\ seen_coords = rw_audit.visits
           /\ SetSum(DOMAIN seen_coords, seen_coords) = step_count

\* In a second episode, within the grace period, a coordinate was visited
\* twice.
C40_Witness ==
    /\ rw_call.op = "calculate_reward"
    /\ rw_premax.valid
    /\ in_grace_period(step_count, grace_period)
    /\ max_explored_tiles = 1
    /\ \E c \in DOMAIN seen_coords : seen_coords[c] = 2

=============================================================================
